---- MODULE Spec2Model ----
(***************************************************************************)
(* The management-signal refresh of the Pilates payments application:       *)
(* the PL/pgSQL function public.refresh_management_signals() of             *)
(* sql/schema.sql, the tables it reads and writes, the transaction and      *)
(* row-lock behaviour it runs under, and the application calls that touch   *)
(* the same rows (task edits, manual tasks, notification read state).       *)
(***************************************************************************)
EXTENDS Integers, Sequences, FiniteSets, TLC

\* SQL NULL: of a uuid or text column, and of a timestamp or integer column
Null == "null"
NullInt == 0 - 1

(***************************************************************************)
(* Bounds of the model.                                                     *)
(***************************************************************************)
\* how many ticks the server clock may advance
MaxTick == 2
\* how many times a direct API call may clear last_refreshed_at
MaxClear == 1
\* how many edits the application makes to tasks and notifications
MaxEdits == 1
\* largest threshold / lesson count / pre-existing attendance drawn in InitRules
MaxCount == 2

(***************************************************************************)
(* Time.  Timestamps are clock ticks; a date is a day number counted from   *)
(* 2024-01-01 = 0.  x::date and current_date are DayOf.                     *)
(***************************************************************************)
TicksPerDay == 2
StartDay == 120

DayOf(ts) == ts \div TicksPerDay

MonthStarts == {0, 31, 60, 91, 121, 152, 182, 213, 244, 274, 305, 335, 366}

Max(S) == CHOOSE x \in S : \A y \in S : y <= x
Min(S) == CHOOSE x \in S : \A y \in S : x <= y

\* date_trunc('month', now())::date
MonthStartOf(day) == Max({m \in MonthStarts : m <= day})
\* (date_trunc('month', now()) + interval '1 month')::date
NextMonthStartOf(day) == Min({m \in MonthStarts : m > day})

NoShowWindowDays == 28
PreviousWindowDays == 56

(***************************************************************************)
(* Identities.  Every client belongs to one owner (clients.user_id).        *)
(***************************************************************************)
Owners == {"A", "B"}
ClientIds == {"c1", "c2", "c3"}
ClientOwner(c) == IF c = "c3" THEN "B" ELSE "A"

\* the calls to refresh_management_signals() the model follows
Procs == {"p1", "p2", "p3"}
\* auth.uid() of each call: p3 comes without a session
CallersOf(p) == IF p = "p3" THEN {Null} ELSE {"A"}

RuleKeys == {"no_show_risk", "attendance_drop", "pending_unpaid_risk"}
TaskStatuses == {"open", "in_progress", "done", "dismissed"}

VARIABLES
  now,                  \* the server clock, in ticks
  variable_conflict,    \* plpgsql.variable_conflict of the database
  clients,              \* public.clients
  attendance,           \* public.attendance
  payments,             \* public.payments
  automation_settings,  \* public.automation_settings (committed rows)
  follow_up_tasks,      \* public.follow_up_tasks (committed rows)
  notifications,        \* public.notifications (committed rows)
  pc,                   \* where each call stands
  current_user_id,      \* auth.uid() of the call
  txn_now,              \* now() of the call's transaction
  settings_row,         \* the row read under FOR UPDATE
  task_count,
  notification_count,
  wsettings,            \* the call's uncommitted version of its settings row
  wtasks,               \* the call's uncommitted task rows
  wnotifs,              \* the call's uncommitted notification rows
  result,               \* the row the call returned, or the error it raised
  edits,                \* application edits made so far
  clears,               \* direct clears of last_refreshed_at made so far
  payment_requests,     \* payment saves the application has sent, not yet run
  login_security,       \* public.login_security (rows by email)
  login_clock,          \* now() of the login calls, in minutes
  login_result,         \* what the last login call returned or raised
  failed_attempts,      \* failed attempts recorded in a row, by email
  login_page,           \* the Login page: where handleSubmit stands
  advanced_signals,     \* the Summary page: the rows of advancedSignals
  payments_page,        \* the Payments page: counters, error flags, save queue
  overlay,              \* lib/overlay.ts and document.body.style.overflow
  overlays              \* the dialogs and the drawer: which are open

loginVars == <<login_security, login_clock, login_result, failed_attempts,
               login_page>>
dbVars == <<automation_settings, follow_up_tasks, notifications>>
pageVars == <<advanced_signals, payments_page, overlay, overlays>>
dataVars == <<clients, attendance, payments, variable_conflict, payment_requests,
              loginVars, pageVars>>
procVars == <<pc, current_user_id, txn_now, settings_row, task_count,
              notification_count, wsettings, wtasks, wnotifs, result>>
vars == <<now, dataVars, dbVars, procVars, edits, clears>>
\* everything but the login state
studioVars == <<now, clients, attendance, payments, variable_conflict,
                payment_requests, dbVars, procVars, edits, clears, pageVars>>

(***************************************************************************)
(* public.automation_settings: column defaults and constraints.             *)
(* attendance_drop_ratio is numeric(5,2): it is kept in hundredths.         *)
(***************************************************************************)
DefaultNoShowThreshold == 2
DefaultPendingLessonsThreshold == 4
DefaultAttendanceDropRatio == 50

DefaultSettings(uid) ==
  [user_id |-> uid,
   no_show_risk_enabled |-> TRUE,
   attendance_drop_enabled |-> TRUE,
   pending_unpaid_risk_enabled |-> TRUE,
   no_show_threshold |-> DefaultNoShowThreshold,
   pending_lessons_threshold |-> DefaultPendingLessonsThreshold,
   attendance_drop_ratio |-> DefaultAttendanceDropRatio,
   last_refreshed_at |-> NullInt]

\* the rows of one owner (user_id is the primary key: at most one)
SettingsOf(S, uid) == {r \in S : r.user_id = uid}

SettingsValid(s) ==
  /\ s.no_show_threshold >= 1
  /\ s.pending_lessons_threshold >= 1
  /\ s.attendance_drop_ratio > 0 /\ s.attendance_drop_ratio <= 100

(***************************************************************************)
(* The three rule queries.  Each is the SELECT of its FOR loop, evaluated   *)
(* on the committed reference data (clients, attendance, payments).         *)
(***************************************************************************)

\* the count with "session_date > from": the first day of the range left out
AttendanceCountAfter(uid, cid, status, from, to) ==
  Cardinality({a \in attendance :
                 /\ a.user_id = uid
                 /\ a.client_id = cid
                 /\ a.status = status
                 /\ a.session_date > from
                 /\ a.session_date <= to})

\* count(*) of the owner's attendance rows of one client, status and date range
\* [from, to] (both inclusive)
AttendanceCount(uid, cid, status, from, to) ==
  Cardinality({a \in attendance :
                 /\ a.user_id = uid
                 /\ a.client_id = cid
                 /\ a.status = status
                 /\ a.session_date >= from
                 /\ a.session_date <= to})

\* rule 1 without "a.user_id = current_user_id": every owner's no-shows
NoShowFindingsAnyOwner(uid, today_date, threshold) ==
  LET cnt(c) == Cardinality({a \in attendance :
                               /\ a.client_id = c.id /\ a.user_id = c.user_id
                               /\ a.status = "no_show"
                               /\ a.session_date >= today_date - NoShowWindowDays
                               /\ a.session_date <= today_date})
  IN  {[client_id |-> c.id, no_show_count |-> cnt(c)] :
         c \in {x \in clients : cnt(x) > 0 /\ cnt(x) >= threshold}}

\* rule 1: attendance join clients, group by client, having count(*) >= threshold
NoShowFindings(uid, today_date, threshold) ==
  LET joined == {c \in clients : c.user_id = uid}
      cnt(c) == AttendanceCount(uid, c.id, "no_show",
                                today_date - NoShowWindowDays, today_date)
  IN  {[client_id |-> c.id, no_show_count |-> cnt(c)] :
         c \in {x \in joined : cnt(x) > 0 /\ cnt(x) >= threshold}}

\* floor(previous * attendance_drop_ratio), the ratio in hundredths
DropLimit(previous, ratio) == (previous * ratio) \div 100

\* rule 2 with "session_date <= today - 28" closing the previous window
AttendanceDropFindingsClosed(uid, today_date, ratio) ==
  LET recent(c) == AttendanceCount(uid, c.id, "attended",
                                   today_date - NoShowWindowDays, today_date)
      previous(c) == AttendanceCount(uid, c.id, "attended",
                                     today_date - PreviousWindowDays,
                                     today_date - NoShowWindowDays)
  IN  {[client_id |-> c.id,
        recent_attended |-> recent(c),
        previous_attended |-> previous(c)] :
         c \in {x \in clients :
                  /\ x.user_id = uid
                  /\ x.is_active = TRUE
                  /\ previous(x) > 0
                  /\ recent(x) <= DropLimit(previous(x), ratio)}}

\* rule 2: clients left join attended_recent left join attended_previous
AttendanceDropFindings(uid, today_date, ratio) ==
  LET recent(c) == AttendanceCount(uid, c.id, "attended",
                                   today_date - NoShowWindowDays, today_date)
      previous(c) == AttendanceCount(uid, c.id, "attended",
                                     today_date - PreviousWindowDays,
                                     today_date - NoShowWindowDays - 1)
  IN  {[client_id |-> c.id,
        recent_attended |-> recent(c),
        previous_attended |-> previous(c)] :
         c \in {x \in clients :
                  /\ x.user_id = uid
                  /\ x.is_active = TRUE
                  /\ previous(x) > 0
                  /\ recent(x) <= DropLimit(previous(x), ratio)}}

\* coalesce(p.lessons, 0)
Coalesce0(v) == IF v = NullInt THEN 0 ELSE v
\* greatest(0, coalesce(p.lessons, 0) - coalesce(acm.attended_count, 0))
PendingLessons(lessons, attended) ==
  IF Coalesce0(lessons) - attended > 0 THEN Coalesce0(lessons) - attended ELSE 0

\* "p.month_start = month_start" at line 767: month_start names both the column
\* of payments and the variable declared at line 569.  With use_variable it is
\* the variable, with use_column the column itself.
MonthStartMatches(p, month_start, conflict) ==
  IF conflict = "use_column" THEN p.month_start = p.month_start
  ELSE p.month_start = month_start

\* PL/pgSQL's default answer to such a name: the statement raises
\* 'column reference "month_start" is ambiguous' when it is prepared.
PendingQueryRaises(conflict) == conflict = "error"

\* rule 3: payments join clients left join attended_current_month; one row per
\* payment row
PendingUnpaidFindings(uid, month_start, next_month_start, threshold, conflict) ==
  LET attended(cid) == AttendanceCount(uid, cid, "attended",
                                       month_start, next_month_start - 1)
      hit == {p \in payments :
                /\ \E c \in clients : c.id = p.client_id /\ c.user_id = p.user_id
                /\ p.user_id = uid
                /\ MonthStartMatches(p, month_start, conflict)
                /\ p.paid = FALSE
                /\ PendingLessons(p.lessons, attended(p.client_id)) >= threshold}
  IN  {[client_id |-> p.client_id,
        payment_month |-> p.month_start,
        pending_lessons |-> PendingLessons(p.lessons, attended(p.client_id))] :
         p \in hit}

(***************************************************************************)
(* The two upserts of a loop body.                                          *)
(***************************************************************************)
TaskKey(t) == <<t.user_id, t.client_id, t.rule_key, t.due_date>>
NotificationKey(n) == <<n.user_id, n.client_id, n.type, n.created_for_date>>

\* gen_random_uuid(): a value no row of the table carries
FreshTaskId(T, v) ==
  <<v.rule_key, v.client_id, v.due_date,
    Cardinality({t \in T : TaskKey(t) = TaskKey(v)})>>
FreshNotificationId(N, v) ==
  <<v.type, v.client_id, v.created_for_date,
    Cardinality({n \in N : NotificationKey(n) = NotificationKey(v)})>>

\* format(...) of the details / body text: the values it prints
FindingText(rule, f) ==
  CASE rule = "no_show_risk" -> <<f.client_id, f.no_show_count>>
    [] rule = "attendance_drop" ->
         <<f.client_id, f.recent_attended, f.previous_attended>>
    [] OTHER -> <<f.client_id, f.pending_lessons>>

RulePriority(rule) == IF rule = "no_show_risk" THEN "high" ELSE "medium"

\* the VALUES list of "insert into public.follow_up_tasks"
TaskValues(uid, rule, f, today_date, ts) ==
  [user_id |-> uid,
   client_id |-> f.client_id,
   rule_key |-> rule,
   title |-> <<"task", rule>>,
   details |-> FindingText(rule, f),
   priority |-> RulePriority(rule),
   status |-> "open",
   due_date |-> today_date,
   created_at |-> ts,
   updated_at |-> ts,
   resolved_at |-> NullInt]

\* the VALUES list of "insert into public.notifications"
NotificationValues(uid, rule, f, today_date, ts) ==
  [user_id |-> uid,
   client_id |-> f.client_id,
   type |-> rule,
   title |-> <<"notification", rule>>,
   body |-> FindingText(rule, f),
   created_for_date |-> today_date,
   is_read |-> FALSE,
   created_at |-> ts,
   read_at |-> NullInt]

\* follow_up_tasks without its unique constraint: no insert meets a row
NoTaskConflicts(T, v) == {}

\* unique (user_id, client_id, rule_key, due_date): the rows the insert meets
TaskConflicts(T, v) == {t \in T : TaskKey(t) = TaskKey(v)}

\* a unique constraint without created_for_date
NotificationConflictsAnyDate(N, v) ==
  {n \in N : /\ n.user_id = v.user_id /\ n.client_id = v.client_id
             /\ n.type = v.type}

NotificationConflicts(N, v) == {n \in N : NotificationKey(n) = NotificationKey(v)}

\* an upsert whose DO UPDATE also sets status and resolved_at from the VALUES
TaskUpsertReopens(T, v) ==
  IF TaskConflicts(T, v) = {}
  THEN {[id |-> FreshTaskId(T, v)] @@ v}
  ELSE {[t EXCEPT !.title = v.title,
                  !.details = v.details,
                  !.priority = v.priority,
                  !.updated_at = v.updated_at,
                  !.status = v.status,
                  !.resolved_at = v.resolved_at] : t \in TaskConflicts(T, v)}

\* insert ... on conflict (user_id, client_id, rule_key, due_date) do update
\* set title, details, priority, updated_at: the rows the statement writes
TaskUpsertRows(T, v) ==
  IF TaskConflicts(T, v) = {}
  THEN {[id |-> FreshTaskId(T, v)] @@ v}
  ELSE {[t EXCEPT !.title = v.title,
                  !.details = v.details,
                  !.priority = v.priority,
                  !.updated_at = v.updated_at] : t \in TaskConflicts(T, v)}

\* an upsert whose DO UPDATE leaves is_read as it is
NotificationUpsertKeepsRead(N, v) ==
  IF NotificationConflicts(N, v) = {}
  THEN {[id |-> FreshNotificationId(N, v)] @@ v}
  ELSE {[n EXCEPT !.title = v.title,
                  !.body = v.body] : n \in NotificationConflicts(N, v)}

\* insert ... on conflict (user_id, client_id, type, created_for_date) do update
\* set title, body, is_read = false: the rows the statement writes
NotificationUpsertRows(N, v) ==
  IF NotificationConflicts(N, v) = {}
  THEN {[id |-> FreshNotificationId(N, v)] @@ v}
  ELSE {[n EXCEPT !.title = v.title,
                  !.body = v.body,
                  !.is_read = FALSE] : n \in NotificationConflicts(N, v)}

\* a table after some of its rows were written (rows are replaced by id)
Overlay(T, W) == {t \in T : \A w \in W : w.id # t.id} \cup W

\* what a transaction sees: the committed rows and its own writes
VisibleTasks(p) == Overlay(follow_up_tasks, wtasks[p])
VisibleNotifications(p) == Overlay(notifications, wnotifs[p])

\* a loop body that ends after the task upsert
LoopBodyTaskOnly(st, T0, N0, uid, rule, f, today_date, ts) ==
  LET T == Overlay(T0, st.wt)
      trows == TaskUpsertRows(T, TaskValues(uid, rule, f, today_date, ts))
  IN  [wt |-> Overlay(st.wt, trows),
       wn |-> st.wn,
       tc |-> st.tc + Cardinality(trows),
       nc |-> st.nc]

\* one pass of a loop body for finding f.  st carries the transaction's
\* written rows and its two counters.
LoopBody(st, T0, N0, uid, rule, f, today_date, ts) ==
  LET T == Overlay(T0, st.wt)
      N == Overlay(N0, st.wn)
      trows == TaskUpsertRows(T, TaskValues(uid, rule, f, today_date, ts))
      nrows == NotificationUpsertRows(N, NotificationValues(uid, rule, f, today_date, ts))
  IN  [wt |-> Overlay(st.wt, trows),
       wn |-> Overlay(st.wn, nrows),
       tc |-> st.tc + Cardinality(trows),
       nc |-> st.nc + Cardinality(nrows)]

\* the FOR loop over the query's rows, taken in the order seq
RECURSIVE RunLoop(_, _, _, _, _, _, _, _, _)
RunLoop(st, T0, N0, uid, rule, seq, i, today_date, ts) ==
  IF i > Len(seq) THEN st
  ELSE RunLoop(LoopBody(st, T0, N0, uid, rule, seq[i], today_date, ts),
               T0, N0, uid, rule, seq, i + 1, today_date, ts)

\* the orders in which a query may return its rows
Orders(F) ==
  {s \in [1 .. Cardinality(F) -> F] :
     \A i, j \in 1 .. Cardinality(F) : i # j => s[i] # s[j]}

(***************************************************************************)
(* Initial states.                                                          *)
(***************************************************************************)
StartNow == StartDay * TicksPerDay

Att(cid, day, slot, status) ==
  [user_id |-> ClientOwner(cid), client_id |-> cid, session_date |-> day,
   time_start |-> slot, status |-> status]

Pay(cid, month, lessons, paid) ==
  [user_id |-> ClientOwner(cid), client_id |-> cid, month_start |-> month,
   lessons |-> lessons, paid |-> paid]

Client(cid, active) == [id |-> cid, user_id |-> ClientOwner(cid), is_active |-> active]

\* the studio of the main specification: c1 stopped coming and owes lessons;
\* c2 was deactivated after missing sessions; c3 is B's client
StudioClients == {Client("c1", TRUE), Client("c2", FALSE), Client("c3", TRUE)}
StudioAttendance ==
  {Att("c1", StartDay - 40, 1, "attended"), Att("c1", StartDay - 50, 1, "attended"),
   Att("c2", StartDay - 3, 1, "no_show"), Att("c2", StartDay - 4, 1, "no_show"),
   Att("c3", StartDay, 1, "no_show"), Att("c3", StartDay - 1, 1, "no_show")}
StudioPayments ==
  {Pay("c1", MonthStartOf(StartDay), 4, FALSE),
   Pay("c3", MonthStartOf(StartDay), 6, FALSE)}

\* a timestamp of the day before the model starts
StaleStamp == StartNow - 1

\* the owner has no settings row yet, or one the Operations page created,
\* possibly refreshed the day before or with the third rule switched off
InitialSettings(uid) ==
  {{},
   {DefaultSettings(uid)},
   {[DefaultSettings(uid) EXCEPT !.last_refreshed_at = StaleStamp]},
   {[DefaultSettings(uid) EXCEPT !.pending_unpaid_risk_enabled = FALSE]}}

(***************************************************************************)
(* Login lockout: public.login_security, check_login_lock,                  *)
(* record_login_attempt and the Login page that calls them.  An email is a  *)
(* sequence of characters; the login clock counts minutes.                  *)
(***************************************************************************)
MaxFailCount == 30
MaxLoginClock == 60

Int32Max == 2147483647
LockThreshold == 3
PenaltyBaseMinutes == 30
LockCapMinutes == 1440

\* what is typed into the form, and what a direct call of the functions passes
EmailInputs == {<<"a">>, <<" ", "A", " ">>}
RpcEmailInputs == EmailInputs \cup {<<>>, <<" ">>}

LowerChar(ch) == IF ch = "A" THEN "a" ELSE ch
Lower(s) == [i \in 1 .. Len(s) |-> LowerChar(s[i])]
RECURSIVE TrimLeft(_)
TrimLeft(s) == IF s # <<>> /\ Head(s) = " " THEN TrimLeft(Tail(s)) ELSE s
RECURSIVE TrimRight(_)
TrimRight(s) ==
  IF s # <<>> /\ s[Len(s)] = " " THEN TrimRight(SubSeq(s, 1, Len(s) - 1)) ELSE s
Trim(s) == TrimRight(TrimLeft(s))

\* lower(trim(coalesce(email_input, '')))
NormalizedEmail(email_input) == Lower(Trim(email_input))

LoginRowsOf(S, email) == {r \in S : r.email = email}

\* the row "insert ... on conflict (email) do nothing" leaves for the email
LoginRowAfterInsert(S, email, now_ts) ==
  IF LoginRowsOf(S, email) = {}
  THEN [email |-> email, fail_count |-> 0, lock_until |-> NullInt,
        last_fail_at |-> NullInt, updated_at |-> now_ts]
  ELSE CHOOSE r \in LoginRowsOf(S, email) : TRUE

RECURSIVE Pow2(_)
Pow2(k) == IF k = 0 THEN 1 ELSE 2 * Pow2(k - 1)

\* (30 * (2 ^ penalty_step))::integer: the product is a double precision
\* value, and the cast raises "integer out of range" above 2^31 - 1
IntegerOutOfRange(penalty_step) ==
  Pow2(penalty_step) > Int32Max \div PenaltyBaseMinutes

\* least(1440, (30 * (2 ^ penalty_step))::integer), when the cast succeeds
LockMinutes(penalty_step) ==
  Min({LockCapMinutes, PenaltyBaseMinutes * Pow2(penalty_step)})

NoLockRow == [is_locked |-> FALSE, lock_until |-> NullInt, fail_count |-> 0]

\* check_login_lock(email_input): the row it returns
CheckLoginLock(S, email_input, now_ts) ==
  LET email == NormalizedEmail(email_input)
      found == LoginRowsOf(S, email)
      current_row == CHOOSE r \in found : TRUE
  IN  IF email = <<>> \/ found = {}
      THEN NoLockRow @@ [remaining_seconds |-> 0]
      ELSE IF current_row.lock_until # NullInt /\ current_row.lock_until > now_ts
           THEN [is_locked |-> TRUE,
                 lock_until |-> current_row.lock_until,
                 fail_count |-> current_row.fail_count,
                 remaining_seconds |-> (current_row.lock_until - now_ts) * 60]
           ELSE [is_locked |-> FALSE,
                 lock_until |-> current_row.lock_until,
                 fail_count |-> current_row.fail_count,
                 remaining_seconds |-> 0]

\* record_login_attempt(email_input, was_success): whether it raises, the
\* table it leaves and the row it returns
RecordLoginAttempt(S, email_input, was_success, now_ts) ==
  LET email == NormalizedEmail(email_input)
      current_row == LoginRowAfterInsert(S, email, now_ts)
      others == S \ LoginRowsOf(S, email)
      next_fail_count == current_row.fail_count + 1
      penalty_step == next_fail_count - LockThreshold
      next_lock_minutes ==
        IF next_fail_count < LockThreshold THEN 0 ELSE LockMinutes(penalty_step)
      next_lock_until ==
        IF next_fail_count < LockThreshold THEN NullInt
        ELSE now_ts + next_lock_minutes
  IN  IF email = <<>>
      THEN [raised |-> FALSE, table |-> S,
            row |-> NoLockRow @@ [lock_minutes |-> 0]]
      ELSE IF was_success
      THEN [raised |-> FALSE,
            table |-> others \cup
              {[current_row EXCEPT !.fail_count = 0, !.lock_until = NullInt,
                                   !.last_fail_at = NullInt,
                                   !.updated_at = now_ts]},
            row |-> NoLockRow @@ [lock_minutes |-> 0]]
      ELSE IF next_fail_count >= LockThreshold /\ IntegerOutOfRange(penalty_step)
      THEN [raised |-> TRUE, table |-> S,
            row |-> NoLockRow @@ [lock_minutes |-> 0]]
      ELSE [raised |-> FALSE,
            table |-> others \cup
              {[current_row EXCEPT !.fail_count = next_fail_count,
                                   !.lock_until = next_lock_until,
                                   !.last_fail_at = now_ts,
                                   !.updated_at = now_ts]},
            row |-> [is_locked |-> next_lock_until # NullInt
                                     /\ next_lock_until > now_ts,
                     lock_until |-> next_lock_until,
                     fail_count |-> next_fail_count,
                     lock_minutes |-> next_lock_minutes]]

\* failed attempts recorded in a row for an email, after one more call
FailedAttemptsAfter(F, email_input, was_success) ==
  LET email == NormalizedEmail(email_input)
  IN  IF email = <<>> THEN F
      ELSE [F EXCEPT ![email] = IF was_success THEN 0 ELSE @ + 1]

\* the counters stay within the bound
WithinFailBound(email_input) ==
  LET email == NormalizedEmail(email_input)
  IN  email # <<>> =>
        /\ failed_attempts[email] < MaxFailCount
        /\ \A r \in LoginRowsOf(login_security, email) :
             r.fail_count < MaxFailCount

\* nobody has used the Login page yet
NoLoginResult == [fn |-> "none"]
IdleLoginPage == [at |-> "idle", email |-> <<>>, calls |-> <<>>]
InitLogin ==
  /\ login_security = {}
  /\ login_clock = 0
  /\ login_result = NoLoginResult
  /\ failed_attempts = [e \in {NormalizedEmail(i) : i \in EmailInputs} |-> 0]
  /\ login_page = IdleLoginPage

(***************************************************************************)
(* lib/overlay.ts: the scroll lock shared by the dialogs and the drawer.   *)
(* overlay holds the two module variables and the inline overflow style of *)
(* the document body.                                                      *)
(***************************************************************************)
MaxOverlayCalls == 6

Overlays == {"AddSessionDialog", "AddClientDialog", "SessionsDrawer"}

\* inline styles the document may carry when the first overlay opens
BodyOverflowValues == {"", "auto"}

\* the module as loaded, in a document whose body has the inline style v
OverlayLoaded(v) ==
  [lockCount |-> 0, previousBodyOverflow |-> "", bodyOverflow |-> v]

NoOverlayOpen(v) ==
  [isOpen |-> [c \in Overlays |-> FALSE], calls |-> <<>>, atLoad |-> v]

\* lockBodyScroll(), in a browser
lockBodyScroll(o) ==
  IF o.lockCount = 0
  THEN [o EXCEPT !.previousBodyOverflow = o.bodyOverflow,
                 !.bodyOverflow = "hidden",
                 !.lockCount = 1]
  ELSE [o EXCEPT !.lockCount = @ + 1]

\* an unlock that only counts down
ForgetLock(o) == [o EXCEPT !.lockCount = @ - 1]

\* unlockBodyScroll(), in a browser
unlockBodyScroll(o) ==
  IF o.lockCount = 0 THEN o
  ELSE IF o.lockCount - 1 = 0
       THEN [o EXCEPT !.lockCount = 0,
                      !.bodyOverflow = o.previousBodyOverflow,
                      !.previousBodyOverflow = ""]
       ELSE [o EXCEPT !.lockCount = @ - 1]

\* the pages other than the overlays: none is open
InitDataPages ==
  /\ advanced_signals = [loaded |-> FALSE, rows |-> <<>>]
  /\ payments_page =
       [savingCountByClientId |-> [c \in ClientIds |-> 0],
        saveErrorByClientId |-> [c \in ClientIds |-> FALSE],
        saveQueueByClientId |-> [c \in ClientIds |-> 0],
        saves |-> [c \in ClientIds |-> <<>>],
        settled |-> [c \in ClientIds |-> <<>>]]

\* no page of the application is open
InitPages ==
  /\ InitDataPages
  /\ overlay = OverlayLoaded("")
  /\ overlays = NoOverlayOpen("")

InitProcs ==
  /\ pc = [p \in Procs |-> "idle"]
  /\ current_user_id = [p \in Procs |-> Null]
  /\ txn_now = [p \in Procs |-> NullInt]
  /\ settings_row = [p \in Procs |-> DefaultSettings(Null)]
  /\ task_count = [p \in Procs |-> 0]
  /\ notification_count = [p \in Procs |-> 0]
  /\ wsettings = [p \in Procs |-> {}]
  /\ wtasks = [p \in Procs |-> {}]
  /\ wnotifs = [p \in Procs |-> {}]
  /\ result = [p \in Procs |-> [status |-> "none"]]

Init ==
  /\ now = StartNow
  /\ variable_conflict \in {"error", "use_variable", "use_column"}
  /\ clients = StudioClients
  /\ attendance = StudioAttendance
  /\ payments = StudioPayments
  /\ automation_settings \in InitialSettings("A")
  /\ follow_up_tasks = {}
  /\ notifications = {}
  /\ InitProcs
  /\ edits = 0
  /\ clears = 0
  /\ payment_requests = {}
  /\ InitLogin
  /\ InitPages

(***************************************************************************)
(* refresh_management_signals(), statement by statement.  The function runs *)
(* in the transaction of the statement that calls it: its writes stay with  *)
(* the call until it returns, and an exception undoes them all.             *)
(***************************************************************************)

\* positions at which the call holds the FOR UPDATE lock on its settings row
Locked == {"no_show", "attendance_drop", "pending_unpaid", "finish"}

\* the settings row read without FOR UPDATE: nobody ever waits
SettingsRowNeverLocked(uid) == FALSE

\* another call of the same owner holds the row (or its uncommitted insert)
SettingsRowLocked(uid) ==
  \E q \in Procs : pc[q] \in Locked /\ current_user_id[q] = uid

\* the function without its check of auth.uid()
AnyCallerAuthenticated(uid) == TRUE

\* "if current_user_id is null then raise exception"
IsAuthenticated(uid) == uid # Null

\* the guard, comparing the timestamp itself to the date
GuardComparesTimestamp(row, today_date) ==
  /\ row.last_refreshed_at # NullInt
  /\ row.last_refreshed_at = today_date

\* line 590: last_refreshed_at is not null and last_refreshed_at::date = today_date
GuardHolds(row, today_date) ==
  /\ row.last_refreshed_at # NullInt
  /\ DayOf(row.last_refreshed_at) = today_date

\* the timestamp written before the rules run: it outlives their failure
SettingsStampedAfterAbort(p) ==
  {r \in automation_settings : r.user_id # current_user_id[p]} \cup
    {[r EXCEPT !.last_refreshed_at = txn_now[p]] :
       r \in SettingsOf(automation_settings, current_user_id[p]) \cup wsettings[p]}

\* what a raised exception leaves of the three tables: the transaction's
\* writes are undone
SettingsAfterAbort(p) == automation_settings

\* an exception handler that keeps the task rows written so far
TasksKeptAfterAbort(p) == Overlay(follow_up_tasks, wtasks[p])

TasksAfterAbort(p) == follow_up_tasks
NotificationsAfterAbort(p) == notifications

Abort(p, message) ==
  /\ pc' = [pc EXCEPT ![p] = "failed"]
  /\ result' = [result EXCEPT ![p] = [status |-> "error", message |-> message]]
  /\ automation_settings' = SettingsAfterAbort(p)
  /\ follow_up_tasks' = TasksAfterAbort(p)
  /\ notifications' = NotificationsAfterAbort(p)
  /\ wsettings' = [wsettings EXCEPT ![p] = {}]
  /\ wtasks' = [wtasks EXCEPT ![p] = {}]
  /\ wnotifs' = [wnotifs EXCEPT ![p] = {}]

\* lines 566-578: the declarations and the authentication check
Call(p, uid) ==
  /\ pc[p] = "idle"
  /\ current_user_id' = [current_user_id EXCEPT ![p] = uid]
  /\ txn_now' = [txn_now EXCEPT ![p] = now]
  /\ IF IsAuthenticated(uid)
     THEN /\ pc' = [pc EXCEPT ![p] = "called"]
          /\ UNCHANGED <<dbVars, wsettings, wtasks, wnotifs, result>>
     ELSE Abort(p, "not authenticated")
  /\ UNCHANGED <<now, dataVars, settings_row, task_count, notification_count,
                 edits, clears>>

\* lines 580-593: create the settings row if absent, lock it, daily guard
LockAndGuard(p) ==
  LET uid == current_user_id[p]
      committed == SettingsOf(automation_settings, uid)
      inserted == IF committed = {} THEN {DefaultSettings(uid)} ELSE {}
      row == CHOOSE r \in committed \cup inserted : TRUE
  IN  /\ pc[p] = "called"
      /\ ~SettingsRowLocked(uid)
      /\ settings_row' = [settings_row EXCEPT ![p] = row]
      /\ IF GuardHolds(row, DayOf(txn_now[p]))
         THEN /\ pc' = [pc EXCEPT ![p] = "returned_guard"]
              /\ result' = [result EXCEPT ![p] =
                   [status |-> "ok", generated_tasks |-> 0,
                    generated_notifications |-> 0,
                    refreshed_at |-> row.last_refreshed_at]]
              /\ UNCHANGED wsettings
         ELSE /\ pc' = [pc EXCEPT ![p] = "no_show"]
              /\ wsettings' = [wsettings EXCEPT ![p] = inserted]
              /\ UNCHANGED result
      /\ UNCHANGED <<now, dataVars, dbVars, current_user_id, txn_now, task_count,
                     notification_count, wtasks, wnotifs, edits, clears>>

\* the state a loop starts from: the call's written rows and counters
LoopState(p) ==
  [wt |-> wtasks[p], wn |-> wnotifs[p],
   tc |-> task_count[p], nc |-> notification_count[p]]

\* a rule's "if enabled then for rec in findings loop ... end loop", then on
\* to position next
RunRule(p, enabled, rule, findings, next) ==
  IF enabled
  THEN \E seq \in Orders(findings) :
         LET st == RunLoop(LoopState(p), follow_up_tasks, notifications,
                           current_user_id[p], rule, seq, 1,
                           DayOf(txn_now[p]), txn_now[p])
         IN  /\ wtasks' = [wtasks EXCEPT ![p] = st.wt]
             /\ wnotifs' = [wnotifs EXCEPT ![p] = st.wn]
             /\ task_count' = [task_count EXCEPT ![p] = st.tc]
             /\ notification_count' = [notification_count EXCEPT ![p] = st.nc]
             /\ pc' = [pc EXCEPT ![p] = next]
  ELSE /\ pc' = [pc EXCEPT ![p] = next]
       /\ UNCHANGED <<wtasks, wnotifs, task_count, notification_count>>

\* lines 595-656
NoShowRule(p) ==
  /\ pc[p] = "no_show"
  /\ RunRule(p, settings_row[p].no_show_risk_enabled, "no_show_risk",
             NoShowFindings(current_user_id[p], DayOf(txn_now[p]),
                            settings_row[p].no_show_threshold),
             "attendance_drop")
  /\ UNCHANGED <<now, dataVars, dbVars, current_user_id, txn_now, settings_row,
                 wsettings, result, edits, clears>>

\* lines 658-741
AttendanceDropRule(p) ==
  /\ pc[p] = "attendance_drop"
  /\ RunRule(p, settings_row[p].attendance_drop_enabled, "attendance_drop",
             AttendanceDropFindings(current_user_id[p], DayOf(txn_now[p]),
                                    settings_row[p].attendance_drop_ratio),
             "pending_unpaid")
  /\ UNCHANGED <<now, dataVars, dbVars, current_user_id, txn_now, settings_row,
                 wsettings, result, edits, clears>>

\* lines 743-815
PendingUnpaidRule(p) ==
  /\ pc[p] = "pending_unpaid"
  /\ IF settings_row[p].pending_unpaid_risk_enabled
        /\ PendingQueryRaises(variable_conflict)
     THEN /\ Abort(p, "column reference month_start is ambiguous")
          /\ UNCHANGED <<task_count, notification_count>>
     ELSE /\ RunRule(p, settings_row[p].pending_unpaid_risk_enabled,
                     "pending_unpaid_risk",
                     PendingUnpaidFindings(current_user_id[p],
                                           MonthStartOf(DayOf(txn_now[p])),
                                           NextMonthStartOf(DayOf(txn_now[p])),
                                           settings_row[p].pending_lessons_threshold,
                                           variable_conflict),
                     "finish")
          /\ UNCHANGED <<dbVars, wsettings, result>>
  /\ UNCHANGED <<now, dataVars, current_user_id, txn_now, settings_row,
                 edits, clears>>

\* an update that stamps the row only when the rules wrote something
SettingsAfterUpdateIfWritten(p) ==
  IF task_count[p] + notification_count[p] > 0
  THEN {[settings_row[p] EXCEPT !.last_refreshed_at = txn_now[p]]}
  ELSE {settings_row[p]}

\* the settings row after "update ... set last_refreshed_at = now()"
SettingsAfterUpdate(p) ==
  {[settings_row[p] EXCEPT !.last_refreshed_at = txn_now[p]]}

\* lines 817-823: stamp the settings row, return the counts; the transaction
\* commits with the call
Finish(p) ==
  /\ pc[p] = "finish"
  /\ automation_settings' =
       {r \in automation_settings : r.user_id # current_user_id[p]}
         \cup SettingsAfterUpdate(p)
  /\ follow_up_tasks' = Overlay(follow_up_tasks, wtasks[p])
  /\ notifications' = Overlay(notifications, wnotifs[p])
  /\ result' = [result EXCEPT ![p] =
       [status |-> "ok", generated_tasks |-> task_count[p],
        generated_notifications |-> notification_count[p],
        refreshed_at |-> txn_now[p]]]
  /\ pc' = [pc EXCEPT ![p] = "returned"]
  /\ wsettings' = [wsettings EXCEPT ![p] = {}]
  /\ wtasks' = [wtasks EXCEPT ![p] = {}]
  /\ wnotifs' = [wnotifs EXCEPT ![p] = {}]
  /\ UNCHANGED <<now, dataVars, current_user_id, txn_now, settings_row, task_count,
                 notification_count, edits, clears>>

\* a read or a write of the store fails, or the request is cancelled, while
\* the call is past the guard (DataSourceFailure)
DataSourceFailure(p) ==
  /\ pc[p] \in Locked
  /\ Abort(p, "data source failure")
  /\ UNCHANGED <<now, dataVars, current_user_id, txn_now, settings_row, task_count,
                 notification_count, edits, clears>>

(***************************************************************************)
(* What the application and the REST API do to the same rows.  Each is one  *)
(* statement in its own transaction; a statement that meets a row written   *)
(* by a refresh still in progress waits for it.                             *)
(***************************************************************************)
TaskRowLocked(t) ==
  \E q \in Procs : pc[q] \in Locked /\ \E w \in wtasks[q] : w.id = t.id
NotificationRowLocked(n) ==
  \E q \in Procs : pc[q] \in Locked /\ \E w \in wnotifs[q] : w.id = n.id

\* the owner signed in to the application
AppUser == "A"

\* a status change that stamps resolved_at whatever the status
ResolvedAtAlways(status, at) == at

\* updateTaskMutation of the Operations and Client Profile pages
ResolvedAtFor(status, at) ==
  IF status = "done" \/ status = "dismissed" THEN at ELSE NullInt

\* updateFollowUpTask(id, {status, resolved_at})
UpdateTaskStatus(t, status) ==
  /\ edits < MaxEdits
  /\ t \in follow_up_tasks
  /\ status # t.status
  /\ ~TaskRowLocked(t)
  /\ follow_up_tasks' = (follow_up_tasks \ {t}) \cup
       {[t EXCEPT !.status = status,
                  !.resolved_at = ResolvedAtFor(status, now),
                  !.updated_at = now]}
  /\ edits' = edits + 1
  /\ UNCHANGED <<now, dataVars, automation_settings, notifications, procVars, clears>>

\* rule_key: `manual_follow_up_${newTaskClientId}_${Date.now()}`
ManualRuleKey(cid, at) == "manual_follow_up_" \o cid \o "_" \o ToString(at)

\* addTaskMutation: a plain insert; a row with the same key makes it fail
AddManualTask(uid, cid, due_date, priority) ==
  LET v == [user_id |-> uid, client_id |-> cid,
            rule_key |-> ManualRuleKey(cid, now),
            title |-> <<"task", "manual">>, details |-> <<>>,
            priority |-> priority, status |-> "open", due_date |-> due_date,
            created_at |-> now, updated_at |-> now, resolved_at |-> NullInt]
  IN  /\ edits < MaxEdits
      /\ \E c \in clients : c.id = cid /\ c.user_id = uid /\ c.is_active
      /\ follow_up_tasks' =
           IF TaskConflicts(follow_up_tasks, v) = {}
           THEN follow_up_tasks \cup {[id |-> FreshTaskId(follow_up_tasks, v)] @@ v}
           ELSE follow_up_tasks
      /\ edits' = edits + 1
      /\ UNCHANGED <<now, dataVars, automation_settings, notifications, procVars, clears>>

\* markNotificationAsRead(id)
MarkNotificationAsRead(n) ==
  /\ edits < MaxEdits
  /\ n \in notifications
  /\ ~n.is_read
  /\ ~NotificationRowLocked(n)
  /\ notifications' = (notifications \ {n}) \cup
       {[n EXCEPT !.is_read = TRUE, !.read_at = now]}
  /\ edits' = edits + 1
  /\ UNCHANGED <<now, dataVars, automation_settings, follow_up_tasks, procVars, clears>>

\* dismissNotification(id): the row is deleted
DismissNotification(n) ==
  /\ edits < MaxEdits
  /\ n \in notifications
  /\ ~NotificationRowLocked(n)
  /\ notifications' = notifications \ {n}
  /\ edits' = edits + 1
  /\ UNCHANGED <<now, dataVars, automation_settings, follow_up_tasks, procVars, clears>>

\* the update policy automation_settings_update_own lets the owner write any
\* column of the row through the REST API, last_refreshed_at included
ClearLastRefreshed(uid) ==
  /\ clears < MaxClear
  /\ ~SettingsRowLocked(uid)
  /\ \E r \in SettingsOf(automation_settings, uid) :
       /\ r.last_refreshed_at # NullInt
       /\ automation_settings' = (automation_settings \ {r}) \cup
            {[r EXCEPT !.last_refreshed_at = NullInt]}
  /\ clears' = clears + 1
  /\ UNCHANGED <<now, dataVars, follow_up_tasks, notifications, procVars, edits>>

\* time passes
Tick ==
  /\ now < StartNow + MaxTick
  /\ now' = now + 1
  /\ UNCHANGED <<dataVars, dbVars, procVars, edits, clears>>

\* the statements of a call that has started
Step(p) ==
  \/ LockAndGuard(p)
  \/ NoShowRule(p)
  \/ AttendanceDropRule(p)
  \/ PendingUnpaidRule(p)
  \/ Finish(p)

Refresh ==
  \E p \in Procs :
    \/ \E uid \in CallersOf(p) : Call(p, uid)
    \/ Step(p)
    \/ DataSourceFailure(p)

Application ==
  \/ \E t \in follow_up_tasks : \E st \in TaskStatuses : UpdateTaskStatus(t, st)
  \/ \E c \in clients : AddManualTask(AppUser, c.id, DayOf(now), "low")
  \/ \E n \in notifications : MarkNotificationAsRead(n)
  \/ \E n \in notifications : DismissNotification(n)

\* the application and direct use of the REST API
Next ==
  \/ Refresh
  \/ Application
  \/ Tick
  \/ \E uid \in Owners : ClearLastRefreshed(uid)

Spec == Init /\ [][Next]_vars

(***************************************************************************)
(* Concurrent calls: every call is owner A's, and they race each other,     *)
(* the clock and the failures of the store.                                 *)
(***************************************************************************)
NextCalls ==
  \/ \E p \in Procs : Call(p, "A")
  \/ \E p \in Procs : Step(p)
  \/ \E p \in Procs : DataSourceFailure(p)
  \/ Tick

SpecCalls == Init /\ [][NextCalls]_vars

(***************************************************************************)
(* One call of owner A on the start day, over drawn reference data:         *)
(* the rules' inputs are varied one family at a time.                       *)
(***************************************************************************)
\* c2 (deactivated) and c3 (B's client) as in the studio; c1 is drawn
FixedAttendance == {a \in StudioAttendance : a.client_id # "c1"}
FixedPayments == {p \in StudioPayments : p.client_id # "c1"}

FlagChoices ==
  {DefaultSettings("A"),
   [DefaultSettings("A") EXCEPT !.no_show_risk_enabled = FALSE],
   [DefaultSettings("A") EXCEPT !.attendance_drop_enabled = FALSE],
   [DefaultSettings("A") EXCEPT !.pending_unpaid_risk_enabled = FALSE]}

\* no-shows of c1 on and around the edges of the 28-day window
NoShowDays == {StartDay, StartDay - NoShowWindowDays,
               StartDay - NoShowWindowDays - 1, StartDay + 1}
\* sessions of c1 inside the window that were not missed
OtherStatusSessions ==
  {Att("c1", StartDay - 1, 2, "canceled"), Att("c1", StartDay - 2, 2, "attended")}
\* sessions c1 attended on and around the edges of both windows and the month
AttendedDays == {StartDay, StartDay - NoShowWindowDays,
                 StartDay - NoShowWindowDays - 1, StartDay - PreviousWindowDays,
                 StartDay - PreviousWindowDays - 1, StartDay + 1}

InitRulesCommon ==
  /\ now = StartNow
  /\ variable_conflict \in {"error", "use_variable", "use_column"}
  /\ follow_up_tasks = {}
  /\ notifications = {}
  /\ InitProcs
  /\ edits = 0
  /\ clears = 0
  /\ payment_requests = {}
  /\ InitLogin
  /\ InitPages

\* family 1: the no-shows of c1, the threshold, the guard
InitNoShow ==
  /\ \E active \in BOOLEAN :
       clients = {Client("c1", active), Client("c2", FALSE), Client("c3", TRUE)}
  /\ \E days \in SUBSET NoShowDays, others \in SUBSET OtherStatusSessions :
       attendance = FixedAttendance \cup others
         \cup {Att("c1", d, 1, "no_show") : d \in days}
  /\ payments = FixedPayments
  /\ \E f \in FlagChoices, th \in 1 .. MaxCount,
        last \in {NullInt, StaleStamp, StartNow} :
       automation_settings =
         {[f EXCEPT !.no_show_threshold = th, !.last_refreshed_at = last]}

\* family 2: the sessions c1 attended, the ratio
InitAttendanceDrop ==
  /\ \E active \in BOOLEAN :
       clients = {Client("c1", active), Client("c2", FALSE), Client("c3", TRUE)}
  /\ \E days \in SUBSET AttendedDays, twice \in SUBSET {StartDay - PreviousWindowDays} :
       attendance = FixedAttendance
         \cup {Att("c1", d, 1, "attended") : d \in days}
         \cup {Att("c1", d, 2, "attended") : d \in twice \cap days}
  /\ payments = FixedPayments
  /\ \E f \in FlagChoices, ratio \in {1, DefaultAttendanceDropRatio, 100} :
       automation_settings = {[f EXCEPT !.attendance_drop_ratio = ratio]}

\* family 3: the payments of c1, the sessions attended this month, the threshold
InitPendingUnpaid ==
  /\ clients = StudioClients
  /\ \E n \in 0 .. MaxCount :
       attendance = FixedAttendance
         \cup {Att("c1", MonthStartOf(StartDay), k, "attended") : k \in 1 .. n}
  /\ \E cur \in SUBSET {Pay("c1", MonthStartOf(StartDay), l, pd) :
                          l \in {NullInt} \cup (0 .. MaxCount + 1), pd \in BOOLEAN},
        old \in SUBSET {Pay("c1", MonthStartOf(MonthStartOf(StartDay) - 1),
                            MaxCount + 1, FALSE)} :
       /\ Cardinality(cur) <= 1
       /\ payments = FixedPayments \cup cur \cup old
  /\ \E f \in FlagChoices, th \in 1 .. MaxCount :
       automation_settings = {[f EXCEPT !.pending_lessons_threshold = th]}

InitRules ==
  /\ InitRulesCommon
  /\ \/ InitNoShow
     \/ InitAttendanceDrop
     \/ InitPendingUnpaid

NextRules ==
  \/ Call("p1", "A")
  \/ Step("p1")

SpecRules == InitRules /\ [][NextRules]_vars

(***************************************************************************)
(* The daily guard: two calls of owner A over every choice of the three     *)
(* flags and of the stored timestamp, with and without data for the rules,  *)
(* while the clock runs into the next day.                                  *)
(***************************************************************************)
FlagSettings(uid) ==
  {[DefaultSettings(uid) EXCEPT !.no_show_risk_enabled = f1,
                               !.attendance_drop_enabled = f2,
                               !.pending_unpaid_risk_enabled = f3] :
     f1 \in BOOLEAN, f2 \in BOOLEAN, f3 \in BOOLEAN}

InitGuard ==
  /\ InitRulesCommon
  /\ clients = StudioClients
  /\ \E recorded \in BOOLEAN :
       /\ attendance = IF recorded THEN StudioAttendance ELSE {}
       /\ payments = IF recorded THEN StudioPayments ELSE {}
  /\ \/ automation_settings = {}
     \/ \E f \in FlagSettings("A"), last \in {NullInt, StaleStamp, StartNow} :
          automation_settings = {[f EXCEPT !.last_refreshed_at = last]}

NextGuard ==
  \/ \E p \in {"p1", "p2"} : Call(p, "A")
  \/ \E p \in {"p1", "p2"} : Step(p)
  \/ Tick

SpecGuard == InitGuard /\ [][NextGuard]_vars

(***************************************************************************)
(* Payment saves of the monthly grid: handleSavePayment sends an upsert of  *)
(* the row of (user, client, month); requests of several edits, tabs or     *)
(* devices are on their way at once and the database runs them one          *)
(* statement at a time.  price and notes are left out of the rows.          *)
(***************************************************************************)
MaxRequests == 2

\* the months the month picker is on
PickedMonths == {MonthStartOf(StartDay), MonthStartOf(MonthStartOf(StartDay) - 1)}

\* parseLessons(draft.lessons): null or a count
LessonChoices == {NullInt, 0, MaxCount}

\* payments without its unique constraint: no insert meets a row
NoPaymentConflicts(P, v) == {}

\* unique (user_id, client_id, month_start): the rows the insert meets
PaymentConflicts(P, v) ==
  {p \in P : /\ p.user_id = v.user_id /\ p.client_id = v.client_id
             /\ p.month_start = v.month_start}

\* upsert(input, { onConflict: "user_id,client_id,month_start" }): insert, or
\* set the columns of the row the insert meets
PaymentUpsertRows(P, v) == (P \ PaymentConflicts(P, v)) \cup {v}

\* handleSavePayment(clientId, draft) -> paymentMutation.mutateAsync(...)
SavePayment(uid, cid, month, lessons, paid) ==
  /\ Cardinality(payment_requests) < MaxRequests
  /\ \E c \in clients : c.id = cid /\ c.user_id = uid /\ c.is_active
  /\ payment_requests' = payment_requests \cup {Pay(cid, month, lessons, paid)}
  /\ UNCHANGED <<now, clients, attendance, payments, variable_conflict,
                 dbVars, procVars, edits, clears, loginVars,
                 pageVars>>

\* upsertPayment(input): the statement runs
UpsertPayment(v) ==
  /\ v \in payment_requests
  /\ payments' = PaymentUpsertRows(payments, v)
  /\ payment_requests' = payment_requests \ {v}
  /\ UNCHANGED <<now, clients, attendance, variable_conflict,
                 dbVars, procVars, edits, clears, loginVars,
                 pageVars>>

InitPayments ==
  /\ now = StartNow
  /\ variable_conflict = "error"
  /\ clients = StudioClients
  /\ attendance = StudioAttendance
  /\ payments \in {{}, StudioPayments}
  /\ automation_settings = {}
  /\ follow_up_tasks = {}
  /\ notifications = {}
  /\ InitProcs
  /\ edits = 0
  /\ clears = 0
  /\ payment_requests = {}
  /\ InitLogin
  /\ InitPages

NextPayments ==
  \/ \E c \in clients, month \in PickedMonths, l \in LessonChoices, pd \in BOOLEAN :
       SavePayment(AppUser, c.id, month, l, pd)
  \/ \E v \in payment_requests : UpsertPayment(v)

SpecPayments == InitPayments /\ [][NextPayments]_vars

(***************************************************************************)
(* Two owners: A's studio is fixed, the rows of owner B are drawn, and each *)
(* owner calls the refresh once on the start day.                           *)
(***************************************************************************)
OwnClients(uid) == {c \in StudioClients : c.user_id = uid}
OwnAttendance(uid) == {a \in StudioAttendance : a.user_id = uid}
OwnPayments(uid) == {p \in StudioPayments : p.user_id = uid}

\* what owner B may have recorded for client c3
OtherAttendance ==
  OwnAttendance("B") \cup {Att("c3", StartDay - 40, 1, "attended")}
OtherSettings ==
  {{}, {DefaultSettings("B")},
   {[DefaultSettings("B") EXCEPT !.no_show_threshold = 1,
                                !.pending_unpaid_risk_enabled = FALSE]}}

InitOwners ==
  /\ InitRulesCommon
  /\ \E cs \in {{}, {Client("c3", TRUE)}, {Client("c3", FALSE)}} :
       /\ clients = OwnClients("A") \cup cs
       /\ \E att \in SUBSET OtherAttendance, pay \in SUBSET OwnPayments("B") :
            /\ cs = {} => (att = {} /\ pay = {})
            /\ attendance = OwnAttendance("A") \cup att
            /\ payments = OwnPayments("A") \cup pay
  /\ \E sa \in InitialSettings("A"), sb \in OtherSettings :
       automation_settings = sa \cup sb

NextOwners ==
  \/ Call("p1", "A")
  \/ Call("p2", "B")
  \/ Step("p1")
  \/ Step("p2")

SpecOwners == InitOwners /\ [][NextOwners]_vars

(***************************************************************************)
(* Properties.                                                              *)
(***************************************************************************)
(* Signing in.  The functions are granted to anon: the Login page calls     *)
(* them, and so can anyone with the project's public key.                   *)
(***************************************************************************)
\* one call of record_login_attempt: its transaction commits or, when the
\* function raises, leaves the table as it was
RunRecordLoginAttempt(email_input, was_success) ==
  LET out == RecordLoginAttempt(login_security, email_input, was_success,
                                login_clock)
  IN  /\ WithinFailBound(email_input)
      /\ login_security' = out.table
      /\ failed_attempts' =
           FailedAttemptsAfter(failed_attempts, email_input, was_success)
      /\ login_result' = [fn |-> "record_login_attempt",
                          email |-> NormalizedEmail(email_input),
                          was_success |-> was_success,
                          raised |-> out.raised, row |-> out.row]

\* supabase.rpc("record_login_attempt", ...) from outside the page
RpcRecordLoginAttempt(email_input, was_success) ==
  /\ RunRecordLoginAttempt(email_input, was_success)
  /\ UNCHANGED <<login_clock, login_page, studioVars>>

\* supabase.rpc("check_login_lock", ...) from outside the page
RpcCheckLoginLock(email_input) ==
  /\ login_result' = [fn |-> "check_login_lock",
                      email |-> NormalizedEmail(email_input),
                      raised |-> FALSE,
                      row |-> CheckLoginLock(login_security, email_input,
                                             login_clock)]
  /\ login_result' # login_result
  /\ UNCHANGED <<login_security, login_clock, failed_attempts, login_page,
                 studioVars>>

\* email.trim().toLowerCase()
PageEmail(typed) == Lower(Trim(typed))

\* a lock check that lets everybody through
LockStateNeverLocked(row) == FALSE

\* lockState.isLocked
LockStateIsLocked(row) == row.is_locked

\* handleSubmit, lines 83-86: the form is submitted
LoginSubmit(typed) ==
  /\ login_page.at \in {"idle", "navigated"}
  /\ login_page' = [at |-> "check", email |-> PageEmail(typed), calls |-> <<>>]
  /\ UNCHANGED <<login_security, login_clock, login_result, failed_attempts,
                 studioVars>>

\* lines 88-99: checkLoginLock; a locked account or a failed check ends the
\* submit
LoginCheck(threw) ==
  LET row == CheckLoginLock(login_security, login_page.email, login_clock)
      outcome == IF threw THEN "threw"
                 ELSE IF LockStateIsLocked(row) THEN "locked" ELSE "open"
  IN  /\ login_page.at = "check"
      /\ login_page' =
           [login_page EXCEPT
              !.at = IF outcome = "open" THEN "sign_in" ELSE "idle",
              !.calls = Append(@, [fn |-> "check_login_lock",
                                   outcome |-> outcome])]
      /\ login_result' =
           IF threw THEN login_result
           ELSE [fn |-> "check_login_lock", email |-> login_page.email,
                 raised |-> FALSE, row |-> row]
      /\ UNCHANGED <<login_security, login_clock, failed_attempts, studioVars>>

\* lines 101-104: supabase.auth.signInWithPassword gives an error or none
LoginSignIn(error) ==
  /\ login_page.at = "sign_in"
  /\ login_page' =
       [login_page EXCEPT
          !.at = IF error THEN "record_failure" ELSE "record_success",
          !.calls = Append(@, [fn |-> "signInWithPassword",
                               outcome |-> IF error THEN "error" ELSE "ok"])]
  /\ UNCHANGED <<login_security, login_clock, login_result, failed_attempts,
                 studioVars>>

\* lines 106-134: recordLoginAttempt with the outcome of the sign-in; what it
\* throws is caught.  The request may fail before the function runs.
LoginRecord(reached) ==
  LET was_success == login_page.at = "record_success"
  IN  /\ login_page.at \in {"record_failure", "record_success"}
      /\ login_page' =
           [login_page EXCEPT
              !.at = IF was_success THEN "navigated" ELSE "idle",
              !.calls = Append(@, [fn |-> "record_login_attempt",
                                   outcome |-> IF was_success THEN "true"
                                               ELSE "false"])]
      /\ IF reached
         THEN RunRecordLoginAttempt(login_page.email, was_success)
         ELSE UNCHANGED <<login_security, failed_attempts, login_result>>
      /\ UNCHANGED <<login_clock, studioVars>>

\* half an hour passes
LoginWait ==
  /\ login_clock < MaxLoginClock
  /\ login_clock' = login_clock + PenaltyBaseMinutes
  /\ UNCHANGED <<login_security, login_result, failed_attempts, login_page,
                 studioVars>>

InitSignIn ==
  /\ Init
  /\ variable_conflict = "error"
  /\ automation_settings = {}

NextSignIn ==
  \/ \E typed \in EmailInputs : LoginSubmit(typed)
  \/ \E threw \in BOOLEAN : LoginCheck(threw)
  \/ \E error \in BOOLEAN : LoginSignIn(error)
  \/ \E reached \in BOOLEAN : LoginRecord(reached)
  \/ \E i \in RpcEmailInputs, s \in BOOLEAN : RpcRecordLoginAttempt(i, s)
  \/ \E i \in RpcEmailInputs : RpcCheckLoginLock(i)
  \/ LoginWait

SpecSignIn == InitSignIn /\ [][NextSignIn]_vars

(***************************************************************************)
(* The Summary page: advancedSignals, computed in the browser from the      *)
(* rows it fetched, for the day of the browser's clock.                     *)
(***************************************************************************)
RecentStartDays == 27
PreviousStartDays == 55
SummaryNoShowLimit == 2
SummaryPendingLimit == 4

\* fetchAttendanceForMonth(userId, from, to): session_date >= from and < to
FetchAttendance(uid, from, to) ==
  {a \in attendance :
     a.user_id = uid /\ a.session_date >= from /\ a.session_date < to}

\* fetchPaymentsForMonth(userId, monthStart)
FetchPayments(uid, month_start) ==
  {p \in payments : p.user_id = uid /\ p.month_start = month_start}

\* fetchFollowUpTasks(userId, ["open", "in_progress"])
FetchOpenTasks(uid) ==
  {t \in follow_up_tasks :
     t.user_id = uid /\ t.status \in {"open", "in_progress"}}

CountOf(sessions, cid, status) ==
  Cardinality({s \in sessions : s.client_id = cid /\ s.status = status})

\* calculateRiskScore: the reasons stand for the texts the page shows
calculateRiskScore(input) ==
  LET r1 == input.noShow28 >= SummaryNoShowLimit
      r2 == /\ input.attendedPrevious28 > 0
            /\ input.attendedRecent28 <= input.attendedPrevious28 \div 2
      r3 == ~input.isPaid /\ input.pendingLessons >= SummaryPendingLimit
      r4 == input.attendedPrevious28 > 0 /\ input.attendedRecent28 = 0
      r5 == input.openTasks > 0
      score == (IF r1 THEN 50 + Min({30, (input.noShow28 - 2) * 10}) ELSE 0)
                 + (IF r2 THEN 25 ELSE 0) + (IF r3 THEN 20 ELSE 0)
                 + (IF r4 THEN 15 ELSE 0) + (IF r5 THEN 10 ELSE 0)
  IN  [score |-> Min({100, score}),
       reasons |-> (IF r1 THEN <<"repeated_no_show">> ELSE <<>>)
                     \o (IF r2 THEN <<"attendance_drop">> ELSE <<>>)
                     \o (IF r3 THEN <<"unpaid_pending">> ELSE <<>>)
                     \o (IF r4 THEN <<"streak_break">> ELSE <<>>)
                     \o (IF r5 THEN <<"open_tasks">> ELSE <<>>)]

\* the row of one active client
AdvancedSignalRow(uid, client, today) ==
  LET recent28Start == today - RecentStartDays
      previous56Start == today - PreviousStartDays
      rolling == FetchAttendance(uid, previous56Start, today + 1)
      recent == {s \in rolling : s.session_date >= recent28Start}
      month == FetchAttendance(uid, MonthStartOf(today), NextMonthStartOf(today))
      paid == FetchPayments(uid, MonthStartOf(today))
      mine == {p \in paid : p.client_id = client.id}
      payment == CHOOSE p \in mine : TRUE
      plannedLessons == IF mine = {} THEN 0 ELSE Coalesce0(payment.lessons)
      attendedLessons == CountOf(month, client.id, "attended")
      pendingLessons == Max({0, plannedLessons - attendedLessons})
      input == [noShow28 |-> CountOf(recent, client.id, "no_show"),
                attendedRecent28 |-> CountOf(recent, client.id, "attended"),
                attendedPrevious28 |->
                  CountOf(rolling \ recent, client.id, "attended"),
                pendingLessons |-> pendingLessons,
                isPaid |-> IF mine = {} THEN FALSE ELSE payment.paid,
                openTasks |-> Cardinality({t \in FetchOpenTasks(uid) :
                                             t.client_id = client.id})]
      risk == calculateRiskScore(input)
  IN  [clientId |-> client.id,
       riskScore |-> risk.score,
       reasons |-> risk.reasons,
       pendingLessons |-> pendingLessons,
       noShow28 |-> input.noShow28,
       openTasks |-> input.openTasks,
       streakBreak |-> input.attendedPrevious28 > 0 /\ input.attendedRecent28 = 0]

\* the sort of advancedSignals: score, then pending lessons, both descending
SignalBefore(a, b) ==
  \/ a.riskScore > b.riskScore
  \/ a.riskScore = b.riskScore /\ a.pendingLessons >= b.pendingLessons

\* advancedSignals: active clients with a positive score, sorted
AdvancedSignals(uid, today) ==
  LET rows == {AdvancedSignalRow(uid, c, today) :
                 c \in {x \in clients : x.user_id = uid /\ x.is_active}}
      shown == {r \in rows : r.riskScore > 0}
  IN  CHOOSE s \in Orders(shown) :
        \A i, j \in 1 .. Len(s) : i < j => SignalBefore(s[i], s[j])

\* the page is opened, or its queries are fetched again
SummaryPage(uid) ==
  /\ advanced_signals' =
       [loaded |-> TRUE, rows |-> AdvancedSignals(uid, DayOf(now))]
  /\ advanced_signals' # advanced_signals
  /\ UNCHANGED <<now, clients, attendance, payments, variable_conflict,
                 payment_requests, loginVars, dbVars, procVars, edits, clears,
                 payments_page, overlay, overlays>>

NextSummary ==
  \/ SummaryPage(AppUser)
  \/ Call("p1", AppUser)
  \/ Step("p1")

SpecSummary == InitRules /\ [][NextSummary]_vars

(***************************************************************************)
(* The Payments page: a queue of saves per client.  A record that has no    *)
(* key for a client reads as 0 or false; saves[c] lists the saves requested *)
(* for c, saveQueueByClientId[c] is the last of them, 0 when none, and      *)
(* settled[c] lists the saves of c in the order they ended.                 *)
(***************************************************************************)
Settled == {"resolved", "rejected"}

\* a handler that chains nothing: every save starts at once
NoPreviousSave(page, cid) == 0

\* saveQueueByClientIdRef.current[clientId] ?? Promise.resolve()
PreviousSave(page, cid) == page.saveQueueByClientId[cid]

\* a counter that is not taken down when a save ends
KeepSavingCount(count, delta) == IF delta > 0 THEN count + delta ELSE count

\* updateSavingCount: Math.max(0, current + delta)
updateSavingCount(count, delta) == Max({0, count + delta})

\* saveStatusByClientId[clientId]
SaveStatus(page, cid) ==
  IF page.savingCountByClientId[cid] > 0 THEN "saving"
  ELSE IF page.saveErrorByClientId[cid] THEN "error"
  ELSE "saved"

\* handleSavePayment(clientId, draft): the save is chained to the previous one
handleSavePayment(cid, draft) ==
  LET k == Len(payments_page.saves[cid]) + 1
  IN  /\ k <= MaxRequests
      /\ \E c \in clients : c.id = cid /\ c.user_id = AppUser /\ c.is_active
      /\ payments_page' =
           [payments_page EXCEPT
              !.saves[cid] = Append(@, [draft |-> draft, state |-> "queued",
                                        after |-> PreviousSave(payments_page, cid)]),
              !.saveQueueByClientId[cid] = k]
      /\ UNCHANGED <<now, clients, attendance, payments, variable_conflict,
                     payment_requests, loginVars, dbVars, procVars, edits,
                     clears, advanced_signals, overlay, overlays>>

\* the promise of the previous save has settled, or there was none
MayStart(page, cid, k) ==
  LET after == page.saves[cid][k].after
  IN  IF after = 0 THEN TRUE ELSE page.saves[cid][after].state \in Settled

\* savePayment, lines 489-496: the counter goes up and the upsert is sent
StartSave(cid, k) ==
  /\ k \in 1 .. Len(payments_page.saves[cid])
  /\ payments_page.saves[cid][k].state = "queued"
  /\ MayStart(payments_page, cid, k)
  /\ payments_page' =
       [payments_page EXCEPT
          !.saves[cid][k].state = "running",
          !.savingCountByClientId[cid] = updateSavingCount(@, 1)]
  /\ UNCHANGED <<now, clients, attendance, payments, variable_conflict,
                 payment_requests, loginVars, dbVars, procVars, edits,
                 clears, advanced_signals, overlay, overlays>>

\* savePayment, lines 496-522: the upsert resolves with the saved row or
\* rejects; the error flag is set or cleared and the counter goes down
SettleSave(cid, k, ok) ==
  /\ k \in 1 .. Len(payments_page.saves[cid])
  /\ payments_page.saves[cid][k].state = "running"
  /\ payments' =
       IF ok THEN PaymentUpsertRows(payments,
                                    Pay(cid, MonthStartOf(DayOf(now)),
                                        payments_page.saves[cid][k].draft, FALSE))
       ELSE payments
  /\ payments_page' =
       [payments_page EXCEPT
          !.saves[cid][k].state = IF ok THEN "resolved" ELSE "rejected",
          !.settled[cid] = Append(@, k),
          !.saveErrorByClientId[cid] = ~ok,
          !.savingCountByClientId[cid] = updateSavingCount(@, 0 - 1)]
  /\ UNCHANGED <<now, clients, attendance, variable_conflict,
                 payment_requests, loginVars, dbVars, procVars, edits,
                 clears, advanced_signals, overlay, overlays>>

\* two active clients of the owner are on the page
PageClientIds == {"c1", "c2"}

InitPaymentsPage ==
  /\ InitRulesCommon
  /\ variable_conflict = "error"
  /\ clients = {Client(cid, TRUE) : cid \in ClientIds}
  /\ attendance = StudioAttendance
  /\ payments = StudioPayments
  /\ automation_settings = {}

NextPaymentsPage ==
  \/ \E cid \in PageClientIds, draft \in LessonChoices :
       handleSavePayment(cid, draft)
  \/ \E cid \in PageClientIds, k \in 1 .. MaxRequests : StartSave(cid, k)
  \/ \E cid \in PageClientIds, k \in 1 .. MaxRequests, ok \in BOOLEAN :
       SettleSave(cid, k, ok)

SpecPaymentsPage == InitPaymentsPage /\ [][NextPaymentsPage]_vars

(***************************************************************************)
(* The dialogs and the drawer.  Each runs the same effect: when isOpen it   *)
(* locks the scroll, and its cleanup unlocks it.                            *)
(***************************************************************************)
CallBy(fn, c) == [fn |-> fn, by |-> c]

\* the effect runs with isOpen true
OverlayOpens(c) ==
  /\ ~overlays.isOpen[c]
  /\ Len(overlays.calls) < MaxOverlayCalls
  /\ overlay' = lockBodyScroll(overlay)
  /\ overlays' = [overlays EXCEPT
                    !.isOpen[c] = TRUE,
                    !.calls = Append(@, CallBy("lockBodyScroll", c))]
  /\ UNCHANGED <<now, clients, attendance, payments, variable_conflict,
                 payment_requests, loginVars, advanced_signals, payments_page,
                 dbVars, procVars, edits, clears>>

\* the cleanup runs: isOpen became false or the component was unmounted
OverlayCloses(c) ==
  /\ overlays.isOpen[c]
  /\ Len(overlays.calls) < MaxOverlayCalls
  /\ overlay' = unlockBodyScroll(overlay)
  /\ overlays' = [overlays EXCEPT
                    !.isOpen[c] = FALSE,
                    !.calls = Append(@, CallBy("unlockBodyScroll", c))]
  /\ UNCHANGED <<now, clients, attendance, payments, variable_conflict,
                 payment_requests, loginVars, advanced_signals, payments_page,
                 dbVars, procVars, edits, clears>>

\* another dependency of the effect changed while open (isSubmitting,
\* onClose): the cleanup runs and then the effect again
OverlayEffectReruns(c) ==
  /\ overlays.isOpen[c]
  /\ Len(overlays.calls) + 2 <= MaxOverlayCalls
  /\ overlay' = lockBodyScroll(unlockBodyScroll(overlay))
  /\ overlays' = [overlays EXCEPT
                    !.calls = @ \o <<CallBy("unlockBodyScroll", c),
                                     CallBy("lockBodyScroll", c)>>]
  /\ UNCHANGED <<now, clients, attendance, payments, variable_conflict,
                 payment_requests, loginVars, advanced_signals, payments_page,
                 dbVars, procVars, edits, clears>>

InitOverlays ==
  /\ now = StartNow
  /\ variable_conflict = "error"
  /\ clients = StudioClients
  /\ attendance = StudioAttendance
  /\ payments = StudioPayments
  /\ automation_settings = {}
  /\ follow_up_tasks = {}
  /\ notifications = {}
  /\ InitProcs
  /\ edits = 0
  /\ clears = 0
  /\ payment_requests = {}
  /\ InitLogin
  /\ InitDataPages
  /\ \E v \in BodyOverflowValues :
       overlay = OverlayLoaded(v) /\ overlays = NoOverlayOpen(v)

NextOverlays ==
  \/ \E c \in Overlays : OverlayOpens(c)
  \/ \E c \in Overlays : OverlayCloses(c)
  \/ \E c \in Overlays : OverlayEffectReruns(c)

SpecOverlays == InitOverlays /\ [][NextOverlays]_vars

(***************************************************************************)
OkResult(tasks, notifs, at) ==
  [status |-> "ok", generated_tasks |-> tasks, generated_notifications |-> notifs,
   refreshed_at |-> at]

\* the call raised after the guard
FailedAfterGuard(p) ==
  /\ pc[p] = "failed"
  /\ result[p].message # "not authenticated"

AllCallsOnDayOf(p) ==
  \A r \in Procs :
    (pc[r] # "idle" /\ current_user_id[r] = current_user_id[p]) =>
      DayOf(txn_now[r]) = DayOf(txn_now[p])

Commits(p) == pc[p] = "finish" /\ pc'[p] = "returned"

\* C3: a call that fails after the guard leaves the settings, task and
\* notification tables as they were before it started, a settings row it
\* created included, and the tables change by a refresh only in the one step
\* that also makes the call's last_refreshed_at visible
C3_FailureRollsBack ==
  [][/\ \A p \in Procs :
          (pc[p] \in Locked /\ pc'[p] = "failed") =>
            /\ UNCHANGED dbVars
            /\ wsettings'[p] = {} /\ wtasks'[p] = {} /\ wnotifs'[p] = {}
            /\ result'[p].status = "error"
     /\ (/\ \/ follow_up_tasks' # follow_up_tasks
            \/ notifications' # notifications
         /\ edits' = edits) =>
          \E p \in Procs :
            /\ Commits(p)
            /\ \A q \in Procs \ {p} : pc'[q] = pc[q]
            /\ follow_up_tasks' = Overlay(follow_up_tasks, wtasks[p])
            /\ notifications' = Overlay(notifications, wnotifs[p])
            /\ \E r \in SettingsOf(automation_settings', current_user_id[p]) :
                 r.last_refreshed_at = txn_now[p]]_vars

\* a call failed after it had created its settings row and written tasks and
\* notifications, and none of the three is in the tables
C3_Witness ==
  \E p \in Procs :
    /\ FailedAfterGuard(p)
    /\ task_count[p] > 0 /\ notification_count[p] > 0
    /\ SettingsOf(automation_settings, current_user_id[p]) = {}
    /\ follow_up_tasks = {} /\ notifications = {}

\* C4: last_refreshed_at becomes a timestamp only in the step in which a call
\* returns from its last statement, and a call that follows a failed call of
\* its owner and day, with no call of that day returned, goes on to the rules
C4_StampOnlyOnSuccess ==
  [][/\ \A r \in automation_settings' \ automation_settings :
          r.last_refreshed_at # NullInt =>
            \E p \in Procs :
              /\ Commits(p)
              /\ result'[p].status = "ok"
              /\ r.user_id = current_user_id[p]
              /\ r.last_refreshed_at = txn_now[p]
     /\ \A p, q \in Procs :
          (/\ FailedAfterGuard(p)
           /\ pc[q] = "called" /\ pc'[q] # "called"
           /\ current_user_id[q] = current_user_id[p]
           /\ DayOf(txn_now[q]) = DayOf(txn_now[p])
           /\ \A r \in Procs :
                (pc[r] = "returned" /\ current_user_id[r] = current_user_id[p])
                  => DayOf(txn_now[r]) # DayOf(txn_now[p])) =>
             pc'[q] = "no_show"]_vars

\* a call failed after it had written tasks, and a call its owner made later
\* the same day ran the rules again and returned the tasks it generated
C4_Witness ==
  \E p, q \in Procs :
    /\ FailedAfterGuard(p) /\ task_count[p] > 0
    /\ current_user_id[q] = current_user_id[p]
    /\ txn_now[q] > txn_now[p]
    /\ DayOf(txn_now[q]) = DayOf(txn_now[p])
    /\ pc[q] = "returned"
    /\ result[q].generated_tasks > 0

\* C5: a call with no caller identity raises "not authenticated" and leaves
\* the settings, task and notification tables as they are, with nothing written
C5_UnauthenticatedNoWrite ==
  [][\A p \in Procs :
       (pc[p] = "idle" /\ pc'[p] # "idle" /\ current_user_id'[p] = Null) =>
         /\ pc'[p] = "failed"
         /\ result'[p] = [status |-> "error", message |-> "not authenticated"]
         /\ UNCHANGED dbVars
         /\ wsettings'[p] = {} /\ wtasks'[p] = {} /\ wnotifs'[p] = {}
         /\ task_count'[p] = 0 /\ notification_count'[p] = 0]_vars

\* a call without identity has failed, no row carries a null owner, and an
\* authenticated call goes on beside it
C5_Witness ==
  \E p, q \in Procs :
    /\ pc[p] = "failed" /\ current_user_id[p] = Null
    /\ result[p].message = "not authenticated"
    /\ \A r \in automation_settings : r.user_id # Null
    /\ pc[q] \in Locked

\* the call got past the guard and has ended, by returning or by raising
RanRules(p) == pc[p] = "returned" \/ FailedAfterGuard(p)

\* the sessions of client c with the given status from day from to day to
SessionsOf(c, status, from, to) ==
  Cardinality({a \in attendance :
                 /\ a.client_id = c.id /\ a.user_id = c.user_id
                 /\ a.status = status
                 /\ from <= a.session_date /\ a.session_date <= to})

\* the tasks and notifications of client c that carry the rule's key
RuleTasks(c, rule) ==
  {t \in follow_up_tasks : t.client_id = c.id /\ t.rule_key = rule}
RuleNotifications(c, rule) ==
  {n \in notifications : n.client_id = c.id /\ n.type = rule}

\* C6: after a call that got past the guard with the no-show rule enabled, a
\* client of the caller with threshold - 1 no-shows in the last 28 days has no
\* no_show_risk task, and one with exactly threshold no-shows has exactly one,
\* of priority high and due on the day of the call
C6_NoShowThreshold ==
  \A p \in Procs :
    (RanRules(p) /\ settings_row[p].no_show_risk_enabled) =>
      \A c \in clients :
        c.user_id = current_user_id[p] =>
          LET today == DayOf(txn_now[p])
              n == SessionsOf(c, "no_show", today - 28, today)
              tasks == RuleTasks(c, "no_show_risk")
          IN  /\ n = settings_row[p].no_show_threshold - 1 => tasks = {}
              /\ n = settings_row[p].no_show_threshold =>
                   /\ Cardinality(tasks) = 1
                   /\ \A t \in tasks : t.priority = "high" /\ t.due_date = today

\* C7: a client that is not active has no no_show_risk task and no
\* no_show_risk notification
C7_NoShowOnlyActiveClients ==
  \A c \in clients :
    ~c.is_active =>
      /\ RuleTasks(c, "no_show_risk") = {}
      /\ RuleNotifications(c, "no_show_risk") = {}

\* C8: after a call that got past the guard with the attendance-drop rule
\* enabled, a client of the caller has an attendance_drop task, of priority
\* medium, iff the client is active, attended sessions in the previous window
\* and attended at most floor(previous * ratio) sessions in the recent one
C8_AttendanceDropIff ==
  \A p \in Procs :
    (RanRules(p) /\ settings_row[p].attendance_drop_enabled) =>
      \A c \in clients :
        c.user_id = current_user_id[p] =>
          LET today == DayOf(txn_now[p])
              recent == SessionsOf(c, "attended", today - 28, today)
              previous == SessionsOf(c, "attended", today - 56, today - 29)
              ratio == settings_row[p].attendance_drop_ratio
              tasks == RuleTasks(c, "attendance_drop")
          IN  /\ tasks # {} <=>
                   /\ c.is_active
                   /\ previous > 0
                   /\ \E limit \in 0 .. previous :
                        /\ limit * 100 <= previous * ratio
                        /\ previous * ratio < (limit + 1) * 100
                        /\ recent <= limit
              /\ \A t \in tasks : t.priority = "medium"

\* C9: after a call that got past the guard with the pending-unpaid rule
\* enabled, a client of the caller has a pending_unpaid_risk task, of priority
\* medium, iff the client has an unpaid payment row of the current month whose
\* lessons less the sessions attended this month, and not below zero, reach the
\* threshold
C9_PendingUnpaidIff ==
  \A p \in Procs :
    (RanRules(p) /\ settings_row[p].pending_unpaid_risk_enabled) =>
      \A c \in clients :
        c.user_id = current_user_id[p] =>
          LET today == DayOf(txn_now[p])
              first == MonthStartOf(today)
              attended == SessionsOf(c, "attended", first, NextMonthStartOf(today) - 1)
              pending(pay) == Max({0, Max({0, pay.lessons}) - attended})
              tasks == RuleTasks(c, "pending_unpaid_risk")
          IN  /\ tasks # {} <=>
                   \E pay \in payments :
                     /\ pay.client_id = c.id /\ pay.user_id = c.user_id
                     /\ pay.month_start = first
                     /\ ~pay.paid
                     /\ pending(pay) >= settings_row[p].pending_lessons_threshold
              /\ \A t \in tasks : t.priority = "medium"

\* no two rows of T have the same key
UniqueBy(T, Key(_)) == \A r1, r2 \in T : Key(r1) = Key(r2) => r1 = r2

\* C10: the task table holds at most one row per (owner, client, rule_key,
\* due_date) and the notification table at most one per (owner, client, type,
\* created_for_date), in the committed tables and in what every call in
\* progress sees
C10_OneRowPerKey ==
  /\ UniqueBy(follow_up_tasks, TaskKey)
  /\ UniqueBy(notifications, NotificationKey)
  /\ \A p \in Procs :
       /\ UniqueBy(VisibleTasks(p), TaskKey)
       /\ UniqueBy(VisibleNotifications(p), NotificationKey)

\* last_refreshed_at was cleared after a refresh, and a second refresh of the
\* day met the rows of the first: both report what they wrote, and the task is
\* the first call's row with the second call's updated_at
C10_Witness ==
  \E p, q \in Procs, t \in follow_up_tasks :
    /\ p # q
    /\ pc[p] = "returned" /\ pc[q] = "returned"
    /\ DayOf(txn_now[p]) = DayOf(txn_now[q])
    /\ result[p].generated_tasks > 0 /\ result[q].generated_tasks > 0
    /\ clears = 1 /\ edits = 0
    /\ t.rule_key \in RuleKeys
    /\ t.created_at = txn_now[p] /\ t.updated_at = txn_now[q]
    /\ txn_now[q] > txn_now[p]

\* rows t and w are equal in every column but title, details, priority and
\* updated_at
SameButUpsertColumns(t, w) ==
  w = [t EXCEPT !.title = w.title, !.details = w.details,
                !.priority = w.priority, !.updated_at = w.updated_at]

\* C11: a task row a call writes over a row of the table, and the row a
\* returning call leaves in place of a row of the table, differ from it at most
\* in title, details, priority and updated_at: status and resolved_at are kept
C11_UpsertKeepsStatus ==
  [][\A p \in Procs :
       /\ \A w \in wtasks'[p] \ wtasks[p] : \A t \in follow_up_tasks :
            t.id = w.id => SameButUpsertColumns(t, w)
       /\ Commits(p) =>
            \A t \in follow_up_tasks :
              \E w \in follow_up_tasks' :
                /\ w.id = t.id
                /\ SameButUpsertColumns(t, w)
                /\ w.status = t.status /\ w.resolved_at = t.resolved_at]_vars

\* a rule's task was marked done or dismissed, and a refresh that returned
\* later wrote the row again: it is still resolved, with the call's updated_at
C11_Witness ==
  \E q \in Procs, t \in follow_up_tasks :
    /\ pc[q] = "returned"
    /\ result[q].generated_tasks > 0
    /\ t.rule_key \in RuleKeys
    /\ t.status \in {"done", "dismissed"}
    /\ t.resolved_at # NullInt
    /\ t.updated_at = txn_now[q]
    /\ t.updated_at > t.resolved_at
    /\ t.created_at < txn_now[q]

\* C12: a notification row a call writes over a row of the table carries the
\* rule's title and body, is unread, and is otherwise that row; when the call
\* returns, the row of the table is the unread one
C12_UpsertResetsRead ==
  [][\A p \in Procs :
       /\ \A w \in wnotifs'[p] \ wnotifs[p] : \A n \in notifications :
            n.id = w.id =>
              /\ w = [n EXCEPT !.title = w.title, !.body = w.body,
                               !.is_read = FALSE]
              /\ w.title = <<"notification", w.type>>
              /\ w.body[1] = w.client_id
       /\ Commits(p) =>
            \A n \in notifications :
              (\E w \in wnotifs[p] : NotificationKey(w) = NotificationKey(n)) =>
                \E w \in notifications' :
                  /\ w.id = n.id
                  /\ NotificationKey(w) = NotificationKey(n)
                  /\ ~w.is_read]_vars

\* a notification the user had read was met by a later refresh of the same
\* date, which returned: the row is unread and still carries its read_at
C12_Witness ==
  \E q \in Procs, n \in notifications :
    /\ pc[q] = "returned"
    /\ result[q].generated_notifications > 0
    /\ n.created_for_date = DayOf(txn_now[q])
    /\ n.created_at < txn_now[q]
    /\ n.read_at # NullInt
    /\ ~n.is_read

\* C13: a call started on day D writes only task rows due on D and
\* notification rows created for D; when it returns, every row of another date
\* is in the tables as it was, and a row written for a key the tables did not
\* hold is a new row, open or unread
C13_OnlyRowsOfTheDay ==
  [][\A p \in Procs :
       LET D == DayOf(txn_now[p])
       IN  /\ \A w \in wtasks'[p] : w.due_date = D
           /\ \A w \in wnotifs'[p] : w.created_for_date = D
           /\ Commits(p) =>
                /\ \A t \in follow_up_tasks : t.due_date # D => t \in follow_up_tasks'
                /\ \A n \in notifications :
                     n.created_for_date # D => n \in notifications'
                /\ \A w \in follow_up_tasks' \ follow_up_tasks : w.due_date = D
                /\ \A w \in notifications' \ notifications : w.created_for_date = D
                /\ \A w \in wtasks[p] :
                     (\A t \in follow_up_tasks : TaskKey(t) # TaskKey(w)) =>
                       /\ w \in follow_up_tasks'
                       /\ w.status = "open"
                       /\ \A t \in follow_up_tasks : t.id # w.id
                /\ \A w \in wnotifs[p] :
                     (\A n \in notifications :
                        NotificationKey(n) # NotificationKey(w)) =>
                       /\ w \in notifications'
                       /\ ~w.is_read
                       /\ \A n \in notifications : n.id # w.id]_vars

\* a rule triggered for a client on two days: the first day's notification,
\* which the user read, is still read, the second day's is unread, and there
\* is an open task for each day
C13_Witness ==
  \E n1, n2 \in notifications, t1, t2 \in follow_up_tasks :
    /\ n1.client_id = n2.client_id /\ n1.type = n2.type
    /\ n1.created_for_date < n2.created_for_date
    /\ n1.is_read /\ n1.read_at # NullInt
    /\ ~n2.is_read
    /\ t1.client_id = n1.client_id /\ t1.rule_key = n1.type
    /\ t2.client_id = n1.client_id /\ t2.rule_key = n1.type
    /\ t1.due_date = n1.created_for_date /\ t2.due_date = n2.created_for_date
    /\ t1.status = "open" /\ t2.status = "open"

\* the rows of table T that belong to owner uid
RowsOf(T, uid) == {r \in T : r.user_id = uid}

\* what the rules find in A's studio on the start day, whatever B recorded:
\* client, rule, and the numbers of the text
StudioFindings(pending_enabled) ==
  {<<"c2", "no_show_risk", <<"c2", 2>>>>,
   <<"c1", "attendance_drop", <<"c1", 0, 2>>>>}
    \cup IF pending_enabled
         THEN {<<"c1", "pending_unpaid_risk", <<"c1", 4>>>>}
         ELSE {}

\* A's call ended as A's own rows and settings decide
OutcomeOfA(p) ==
  LET pending_enabled == settings_row[p].pending_unpaid_risk_enabled
      expected == StudioFindings(pending_enabled)
  IN  /\ pc[p] = "failed" <=> (pending_enabled /\ variable_conflict = "error")
      /\ pc[p] = "failed" =>
           /\ RowsOf(follow_up_tasks, "A") = {}
           /\ RowsOf(notifications, "A") = {}
      /\ pc[p] = "returned" =>
           /\ result[p] = OkResult(Cardinality(expected), Cardinality(expected),
                                   txn_now[p])
           /\ {<<t.client_id, t.rule_key, t.details>> :
                 t \in RowsOf(follow_up_tasks, "A")} = expected
           /\ {<<n.client_id, n.type, n.body>> :
                 n \in RowsOf(notifications, "A")} = expected

\* C14: a step of a call leaves the rows of every other owner as they are and
\* writes rows of its caller only, for the caller's own clients; and A's call
\* ends with the same outcome, counts and rows whatever rows B has
C14_OwnerIsolation ==
  [][/\ \A p \in Procs : \A uid \in Owners :
          (pc'[p] # pc[p] /\ current_user_id'[p] # uid) =>
            /\ RowsOf(follow_up_tasks', uid) = RowsOf(follow_up_tasks, uid)
            /\ RowsOf(notifications', uid) = RowsOf(notifications, uid)
            /\ RowsOf(automation_settings', uid) = RowsOf(automation_settings, uid)
     /\ \A p \in Procs :
          /\ \A w \in wtasks'[p] \cup wnotifs'[p] :
               /\ w.user_id = current_user_id'[p]
               /\ ClientOwner(w.client_id) = w.user_id
          /\ \A w \in wsettings'[p] : w.user_id = current_user_id'[p]
          /\ (current_user_id'[p] = "A" /\ pc'[p] \in {"returned", "failed"}) =>
               OutcomeOfA(p)']_vars

\* B has a client with no-shows and B's refresh wrote rows for that client;
\* A's refresh returned its three findings beside them
C14_Witness ==
  \E p, q \in Procs :
    /\ current_user_id[p] = "A" /\ pc[p] = "returned"
    /\ current_user_id[q] = "B" /\ pc[q] = "returned"
    /\ result[p].generated_tasks = 3
    /\ result[q].generated_tasks > 0
    /\ RowsOf(follow_up_tasks, "B") # {}
    /\ RowsOf(notifications, "B") # {}
    /\ \E a \in attendance : a.user_id = "B" /\ a.status = "no_show"

\* the key of a payment row
PaymentKey(p) == <<p.user_id, p.client_id, p.month_start>>

\* C15: there is at most one payment row per (user_id, client_id,
\* month_start), and a save that has run left its values in the row of its key
C15_OnePaymentPerKey ==
  [][/\ UniqueBy(payments', PaymentKey)
     /\ \A v \in payment_requests \ payment_requests' :
          /\ v \in payments'
          /\ \A p \in payments :
               PaymentKey(p) # PaymentKey(v) => p \in payments'
          /\ Cardinality({PaymentKey(p) : p \in payments'}) =
               Cardinality({PaymentKey(p) : p \in payments \cup {v}})]_vars

\* two saves with different values for the key of a row were on their way
\* together, one has run and the other is still to run: the key has one row
C15_Witness ==
  \E v \in payment_requests, p \in payments :
    /\ PaymentKey(v) = PaymentKey(p)
    /\ v # p
    /\ p \notin StudioPayments
    /\ \E q \in StudioPayments : PaymentKey(q) = PaymentKey(p)
    /\ Cardinality(payments) > 2

\* the call started with all three rules switched off
AllRulesDisabled(p) ==
  /\ ~settings_row[p].no_show_risk_enabled
  /\ ~settings_row[p].attendance_drop_enabled
  /\ ~settings_row[p].pending_unpaid_risk_enabled

\* C16: a call that finds no settings row, a null last_refreshed_at or one of
\* an earlier day goes on to the rules; when it returns, whatever the rules
\* wrote, last_refreshed_at is the call's now() and so is the refreshed_at it
\* returns; and a call that finds a last_refreshed_at of its own day returns
\* from the guard
C16_GuardAndStamp ==
  [][\A p \in Procs :
       /\ (pc[p] = "called" /\ pc'[p] # "called") =>
            LET rows == SettingsOf(automation_settings, current_user_id[p])
                today == DayOf(txn_now[p])
            IN  /\ (\A r \in rows : \/ r.last_refreshed_at = NullInt
                                    \/ DayOf(r.last_refreshed_at) < today)
                      => pc'[p] = "no_show"
                /\ (\E r \in rows : /\ r.last_refreshed_at # NullInt
                                    /\ DayOf(r.last_refreshed_at) = today)
                      => pc'[p] = "returned_guard"
       /\ Commits(p) =>
            /\ result'[p] = OkResult(task_count[p], notification_count[p],
                                     txn_now[p])
            /\ \E r \in SettingsOf(automation_settings', current_user_id[p]) :
                 r.last_refreshed_at = txn_now[p]]_vars

\* a call ran with all three rules switched off and returned zero counts and
\* its now(); a later call of the same day came back from the guard with
\* that timestamp
C16_Witness ==
  \E p, q \in Procs :
    /\ pc[p] = "returned" /\ AllRulesDisabled(p)
    /\ result[p] = OkResult(0, 0, txn_now[p])
    /\ pc[q] = "returned_guard"
    /\ txn_now[q] > txn_now[p]
    /\ result[q] = OkResult(0, 0, txn_now[p])
    /\ \E r \in SettingsOf(automation_settings, "A") :
         r.last_refreshed_at = txn_now[p]

\* the no-show rule of call p has run
NoShowRuleDone(p) ==
  pc[p] \in {"attendance_drop", "pending_unpaid", "finish", "returned"}

\* C17: once the no-show rule of a call has run, the number it wrote for a
\* client is the number of the client's no_show sessions dated from today - 28
\* to today, both included; that number reaches the threshold; and every
\* active client whose number reaches the threshold has a row
C17_NoShowWindow ==
  \A p \in Procs :
    (NoShowRuleDone(p) /\ settings_row[p].no_show_risk_enabled) =>
      \A c \in clients :
        c.user_id = current_user_id[p] =>
          LET today == DayOf(txn_now[p])
              n == Cardinality({a \in attendance :
                     /\ a.client_id = c.id /\ a.user_id = c.user_id
                     /\ a.status = "no_show"
                     /\ today - 28 <= a.session_date
                     /\ a.session_date <= today})
              rows == {t \in VisibleTasks(p) :
                         t.client_id = c.id /\ t.rule_key = "no_show_risk"}
          IN  /\ \A t \in rows :
                   /\ t.details = <<c.id, n>>
                   /\ n >= settings_row[p].no_show_threshold
              /\ (c.is_active /\ n >= settings_row[p].no_show_threshold)
                   => rows # {}

\* c1 missed sessions today, 28 days ago, 29 days ago and tomorrow, and has a
\* canceled and an attended session in the window: the rule wrote the count 2
C17_Witness ==
  \E p \in Procs :
    /\ NoShowRuleDone(p)
    /\ \A d \in NoShowDays : Att("c1", d, 1, "no_show") \in attendance
    /\ OtherStatusSessions \subseteq attendance
    /\ settings_row[p].no_show_threshold = 2
    /\ \E t \in VisibleTasks(p) :
         /\ t.rule_key = "no_show_risk"
         /\ t.details = <<"c1", 2>>

\* the attendance-drop rule of call p has run
AttendanceDropRuleDone(p) == pc[p] \in {"pending_unpaid", "finish", "returned"}

\* C18: once the attendance-drop rule of a call has run, the two numbers it
\* wrote for a client are the client's attended sessions dated from today - 28
\* to today, both included, and those dated from today - 56, included, to
\* today - 28, excluded; and an active client with sessions in the second
\* range and none in the first has a row
C18_AttendanceWindows ==
  \A p \in Procs :
    (AttendanceDropRuleDone(p) /\ settings_row[p].attendance_drop_enabled) =>
      \A c \in clients :
        c.user_id = current_user_id[p] =>
          LET today == DayOf(txn_now[p])
              attended == {a \in attendance :
                             /\ a.client_id = c.id /\ a.user_id = c.user_id
                             /\ a.status = "attended"}
              recent == Cardinality({a \in attended :
                          today - 28 <= a.session_date /\ a.session_date <= today})
              previous == Cardinality({a \in attended :
                            today - 56 <= a.session_date
                              /\ a.session_date < today - 28})
              rows == {t \in VisibleTasks(p) :
                         t.client_id = c.id /\ t.rule_key = "attendance_drop"}
          IN  /\ \A t \in rows : t.details = <<c.id, recent, previous>>
              /\ (c.is_active /\ previous > 0 /\ recent = 0) => rows # {}

\* c1 attended 28, 29, 56 (twice) and 57 days ago and tomorrow, not today: the
\* rule wrote 1 for the recent window and 3 for the previous one
C18_Witness ==
  \E p \in Procs :
    /\ AttendanceDropRuleDone(p)
    /\ \A d \in AttendedDays \ {StartDay} : Att("c1", d, 1, "attended") \in attendance
    /\ Att("c1", StartDay, 1, "attended") \notin attendance
    /\ \E t \in VisibleTasks(p) :
         /\ t.rule_key = "attendance_drop"
         /\ t.details = <<"c1", 1, 3>>

\* C19: the task rows and the notification rows a call has written have the
\* same (owner, client, rule, date) keys and are counted alike; when the call
\* returns, each of those keys has its task and its notification in the tables
C19_TaskAndNotificationTogether ==
  [][\A p \in Procs :
       /\ {TaskKey(t) : t \in wtasks'[p]} =
            {NotificationKey(n) : n \in wnotifs'[p]}
       /\ task_count'[p] = notification_count'[p]
       /\ Commits(p) =>
            /\ result'[p].generated_tasks = result'[p].generated_notifications
            /\ \A t \in wtasks[p] :
                 /\ t \in follow_up_tasks'
                 /\ \E n \in notifications' :
                      /\ NotificationKey(n) = TaskKey(t)
                      /\ n \in wnotifs[p]
            /\ \A n \in wnotifs[p] :
                 /\ n \in notifications'
                 /\ \E t \in follow_up_tasks' :
                      /\ TaskKey(t) = NotificationKey(n)
                      /\ t \in wtasks[p]]_vars

\* a call returned three tasks and three notifications, and the tables hold
\* a task and a notification for each of its three findings
C19_Witness ==
  \E p \in Procs :
    /\ pc[p] = "returned"
    /\ result[p].generated_tasks = 3 /\ result[p].generated_notifications = 3
    /\ Cardinality(follow_up_tasks) = 3
    /\ {TaskKey(t) : t \in follow_up_tasks} =
         {NotificationKey(n) : n \in notifications}

\* the flag of a rule in the settings row a call read
RuleEnabled(p, rule) ==
  CASE rule = "no_show_risk" -> settings_row[p].no_show_risk_enabled
    [] rule = "attendance_drop" -> settings_row[p].attendance_drop_enabled
    [] OTHER -> settings_row[p].pending_unpaid_risk_enabled

\* the data make the rule trigger for client c on the day of call p
PlainlyTriggers(p, rule, c) ==
  LET today == DayOf(txn_now[p])
      first == MonthStartOf(today)
  IN  CASE rule = "no_show_risk" ->
             /\ c.is_active
             /\ SessionsOf(c, "no_show", today - 28, today)
                  >= settings_row[p].no_show_threshold
        [] rule = "attendance_drop" ->
             /\ c.is_active
             /\ SessionsOf(c, "attended", today - 56, today - 29) > 0
             /\ SessionsOf(c, "attended", today - 28, today) = 0
        [] OTHER ->
             \E pay \in payments :
               /\ pay.client_id = c.id /\ pay.user_id = c.user_id
               /\ pay.month_start = first /\ ~pay.paid
               /\ SessionsOf(c, "attended", first, NextMonthStartOf(today) - 1) = 0
               /\ pay.lessons >= settings_row[p].pending_lessons_threshold

\* C20: after a call that got past the guard with a rule switched off, no task
\* and no notification carries that rule's key, every enabled rule that the
\* data trigger for a client of the caller has its task and notification, and
\* last_refreshed_at is the call's now()
C20_DisabledRuleSkipped ==
  \A p \in Procs :
    (RanRules(p) /\ \E rule \in RuleKeys : ~RuleEnabled(p, rule)) =>
      /\ \A rule \in RuleKeys : \A c \in clients :
           c.user_id = current_user_id[p] =>
             /\ ~RuleEnabled(p, rule) =>
                  /\ RuleTasks(c, rule) = {}
                  /\ RuleNotifications(c, rule) = {}
             /\ (RuleEnabled(p, rule) /\ PlainlyTriggers(p, rule, c)) =>
                  /\ RuleTasks(c, rule) # {}
                  /\ RuleNotifications(c, rule) # {}
      /\ \E r \in SettingsOf(automation_settings, current_user_id[p]) :
           r.last_refreshed_at = txn_now[p]

(***************************************************************************)
(* The counts a call returns.                                              *)
(***************************************************************************)
\* the rows of W written for one rule and one client
WrittenFor(W, Rule(_), rule, cid) ==
  {w \in W : Rule(w) = rule /\ w.client_id = cid}
RuleKeyOf(t) == t.rule_key
TypeOf(n) == n.type

ClaimedLockMinutes(n) ==
  IF n - LockThreshold >= 6 THEN LockCapMinutes
  ELSE Min({LockCapMinutes, PenaltyBaseMinutes * Pow2(n - LockThreshold)})

\* C22: when the last call recorded the n-th failed attempt in a row for an
\* email, it completed without error; for n < 3 the row carries no lock and
\* the call returned is_locked = false; for n >= 3 the row has fail_count = n
\* and a lock of min(1440, 30 * 2^(n - 3)) minutes from the call's now(), and
\* the call returned is_locked = true with that number of minutes
C22_LockGrowsAndCaps ==
  (/\ login_result.fn = "record_login_attempt"
   /\ ~login_result.was_success
   /\ login_result.email # <<>>) =>
    LET n == failed_attempts[login_result.email]
    IN  /\ ~login_result.raised
        /\ \E r \in LoginRowsOf(login_security, login_result.email) :
             /\ r.fail_count = n
             /\ login_result.row.fail_count = n
             /\ IF n < LockThreshold
                THEN /\ r.lock_until = NullInt
                     /\ ~login_result.row.is_locked
                ELSE /\ r.lock_until = r.last_fail_at + ClaimedLockMinutes(n)
                     /\ login_result.row.is_locked
                     /\ login_result.row.lock_minutes = ClaimedLockMinutes(n)

(***************************************************************************)
(* The settings row of a refresh.                                          *)
(***************************************************************************)
SameRuleSettings(r, s) ==
  /\ r.no_show_risk_enabled = s.no_show_risk_enabled
  /\ r.attendance_drop_enabled = s.attendance_drop_enabled
  /\ r.pending_unpaid_risk_enabled = s.pending_unpaid_risk_enabled
  /\ r.no_show_threshold = s.no_show_threshold
  /\ r.pending_lessons_threshold = s.pending_lessons_threshold
  /\ r.attendance_drop_ratio = s.attendance_drop_ratio

\* the call ends here, having got past the guard
EndsPastGuard(p) == pc[p] \in Locked /\ pc'[p] \in {"returned", "failed"}

\* C23: no step of a refresh changes the rule flags, the thresholds or the
\* ratio of a settings row that exists, and a refresh that got past the guard
\* for an owner without a settings row leaves a row with the defaults (three
\* rules enabled, thresholds 2 and 4, ratio 0.5) for that owner
C23_SettingsCreatedAndKept ==
  [][/\ \A r \in automation_settings :
          \E s \in SettingsOf(automation_settings', r.user_id) :
            SameRuleSettings(r, s)
     /\ \A p \in Procs :
          (EndsPastGuard(p)
             /\ SettingsOf(automation_settings, current_user_id[p]) = {}) =>
            \E s \in SettingsOf(automation_settings', current_user_id[p]) :
              SameRuleSettings(s, DefaultSettings(current_user_id[p]))]_vars

(***************************************************************************)
(* Fresh inserts.                                                          *)
(***************************************************************************)
RulePositions == {"no_show", "attendance_drop", "pending_unpaid"}

\* the step is a loop of call p that ran to its end
RanALoop(p) ==
  /\ pc[p] \in RulePositions
  /\ pc'[p] \in (RulePositions \cup {"finish"}) \ {pc[p]}

IdsOf(T) == {r.id : r \in T}

\* C24: with the settings row never deleted, last_refreshed_at written by
\* refresh alone, a clock that only moves forward and the three rule keys
\* used by refresh alone, every upsert of a refresh inserts: the rows a loop
\* writes are as many as its upserts, and none of them is a row that was in
\* the table or that the call had written before
C24_RefreshOnlyInserts ==
  [][\A p \in Procs : RanALoop(p) =>
       /\ IdsOf(wtasks'[p]) \cap IdsOf(follow_up_tasks) = {}
       /\ IdsOf(wnotifs'[p]) \cap IdsOf(notifications) = {}
       /\ Cardinality(wtasks'[p] \ wtasks[p]) = task_count'[p] - task_count[p]
       /\ Cardinality(wnotifs'[p] \ wnotifs[p])
            = notification_count'[p] - notification_count[p]
       /\ wtasks[p] \subseteq wtasks'[p]
       /\ wnotifs[p] \subseteq wnotifs'[p]]_vars

(***************************************************************************)
(* The Summary page and the server rules.                                  *)
(***************************************************************************)
\* the page shows the reason for the client
ShowsReason(cid, reason) ==
  \E i \in 1 .. Len(advanced_signals.rows) :
    /\ advanced_signals.rows[i].clientId = cid
    /\ \E k \in 1 .. Len(advanced_signals.rows[i].reasons) :
         advanced_signals.rows[i].reasons[k] = reason

\* C25: on the rows the Summary page has computed for today, an active client
\* of the owner carries the repeated-no-show reason exactly when the no-show
\* rule with the default threshold selects that client for today, and the
\* attendance-drop reason exactly when the attendance-drop rule with the
\* default ratio selects that client
C25_SummaryAgreesWithRules ==
  advanced_signals.loaded =>
    \A c \in clients :
      (c.user_id = AppUser /\ c.is_active) =>
        /\ ShowsReason(c.id, "repeated_no_show")
             <=> \E f \in NoShowFindings(AppUser, DayOf(now),
                                         DefaultNoShowThreshold) :
                   f.client_id = c.id
        /\ ShowsReason(c.id, "attendance_drop")
             <=> \E f \in AttendanceDropFindings(AppUser, DayOf(now),
                                                 DefaultAttendanceDropRatio) :
                   f.client_id = c.id

(***************************************************************************)
(* The Payments page.                                                      *)
(***************************************************************************)
SavesOf(cid) == payments_page.saves[cid]
InFlight(cid) ==
  {k \in 1 .. Len(SavesOf(cid)) : SavesOf(cid)[k].state = "running"}

\* C26: the saves of one client run one at a time in the order they were
\* requested: a save has started only if the save requested before it for
\* that client has resolved or rejected, and a queued save whose predecessor
\* has resolved or rejected (or that has none) can start
C26_SavesOneAtATime ==
  \A cid \in ClientIds :
    /\ Cardinality(InFlight(cid)) <= 1
    /\ \A k \in 1 .. Len(SavesOf(cid)) :
         /\ (k > 1 /\ SavesOf(cid)[k].state # "queued") =>
              SavesOf(cid)[k - 1].state \in Settled
         /\ (/\ SavesOf(cid)[k].state = "queued"
             /\ k > 1 => SavesOf(cid)[k - 1].state \in Settled) =>
              ENABLED StartSave(cid, k)

\* the second save of a client runs after its first was rejected, while a
\* save of another client is in flight
C26_Witness ==
  \E c, d \in ClientIds :
    /\ c # d
    /\ Len(SavesOf(c)) = 2
    /\ SavesOf(c)[1].state = "rejected"
    /\ SavesOf(c)[2].state = "running"
    /\ InFlight(d) # {}

\* the save of the client that ended last failed
LastSettledFailed(cid) ==
  LET ended == payments_page.settled[cid]
  IN  ended # <<>> /\ SavesOf(cid)[ended[Len(ended)]].state = "rejected"

\* C27: for every client the in-flight counter is not negative and is the
\* number of the client's saves that have started and not ended; the status
\* shown is 'saving' exactly when the counter is positive, and otherwise
\* 'error' exactly when the save that ended last failed, else 'saved'
C27_CounterAndStatus ==
  \A cid \in ClientIds :
    /\ payments_page.savingCountByClientId[cid] >= 0
    /\ payments_page.savingCountByClientId[cid] = Cardinality(InFlight(cid))
    /\ SaveStatus(payments_page, cid) = "saving" <=> InFlight(cid) # {}
    /\ InFlight(cid) = {} =>
         /\ SaveStatus(payments_page, cid) = "error" <=> LastSettledFailed(cid)
         /\ SaveStatus(payments_page, cid) = "saved" <=> ~LastSettledFailed(cid)

\* a client whose first save failed and whose second succeeded shows 'saved'
\* with nothing in flight, while another client shows 'error'
C27_Witness ==
  \E c, d \in ClientIds :
    /\ SavesOf(c) # <<>> /\ SavesOf(c)[1].state = "rejected"
    /\ Len(SavesOf(c)) = 2 /\ SavesOf(c)[2].state = "resolved"
    /\ SaveStatus(payments_page, c) = "saved"
    /\ SaveStatus(payments_page, d) = "error"
    /\ payments_page.savingCountByClientId[d] = 0

(***************************************************************************)
(* The login page.                                                         *)
(***************************************************************************)
CallsMade == login_page.calls
SubmitEnded == login_page.at \in {"idle", "navigated"}
IndexesOf(fn) == {i \in 1 .. Len(CallsMade) : CallsMade[i].fn = fn}

\* what one submit has called so far is a prefix of: the lock check, the
\* sign-in if the check said not locked, one record call with the outcome of
\* the sign-in
CallsInOrder ==
  /\ Len(CallsMade) <= 3
  /\ CallsMade # <<>> => CallsMade[1].fn = "check_login_lock"
  /\ \A i \in IndexesOf("check_login_lock") : i = 1
  /\ \A i \in IndexesOf("signInWithPassword") :
       i = 2 /\ CallsMade[1].outcome = "open"
  /\ \A i \in IndexesOf("record_login_attempt") :
       /\ i = 3
       /\ CallsMade[2].fn = "signInWithPassword"
       /\ CallsMade[3].outcome = "false" <=> CallsMade[2].outcome = "error"
       /\ CallsMade[3].outcome = "true" <=> CallsMade[2].outcome = "ok"
  /\ (CallsMade # <<>> /\ CallsMade[1].outcome \in {"locked", "threw"}) =>
       Len(CallsMade) = 1 /\ SubmitEnded
  /\ (SubmitEnded /\ IndexesOf("signInWithPassword") # {}) =>
       Cardinality(IndexesOf("record_login_attempt")) = 1

\* C28: in one login submit the password sign-in is attempted only after
\* check_login_lock returned not locked; when the check reports a lock or
\* throws there is no sign-in and no record_login_attempt call; every sign-in
\* attempted is followed by exactly one record_login_attempt call carrying
\* its outcome
C28_SignInOnlyWhenNotLocked ==
  [][/\ CallsInOrder'
     /\ (login_page.at = "check" /\ login_page'.at = "sign_in") =>
          ~CheckLoginLock(login_security, login_page.email,
                          login_clock).is_locked]_vars

\* a submit passed the check, failed to sign in and recorded the failure that
\* locked the account
C28_Witness ==
  /\ SubmitEnded
  /\ Len(CallsMade) = 3
  /\ CallsMade[3] = [fn |-> "record_login_attempt", outcome |-> "false"]
  /\ login_result.fn = "record_login_attempt"
  /\ ~login_result.raised
  /\ login_result.row.is_locked

(***************************************************************************)
(* Follow-up tasks: status and resolved_at.                                *)
(***************************************************************************)
ClosedStatuses == {"done", "dismissed"}

ResolvedIffClosed(t) == (t.resolved_at # NullInt) <=> (t.status \in ClosedStatuses)

\* a step of a refresh: the table changed and the application made no edit
RefreshWroteTasks == follow_up_tasks' # follow_up_tasks /\ edits' = edits

LocksHeld == Cardinality({c \in Overlays : overlays.isOpen[c]})

\* C30: whatever the order in which the dialogs and the drawer open and
\* close, lockCount is not negative and is the number of locks not yet
\* released; the body overflow is 'hidden' while lockCount > 0; an unlock at
\* lockCount = 0 changes nothing; and when lockCount is back at 0 the body
\* overflow is the value it had before the first outstanding lock
C30_ScrollLockCounts ==
  /\ overlay.lockCount >= 0
  /\ overlay.lockCount = LocksHeld
  /\ overlay.lockCount > 0 => overlay.bodyOverflow = "hidden"
  /\ overlay.lockCount = 0 =>
       /\ unlockBodyScroll(overlay) = overlay
       /\ overlay.bodyOverflow = overlays.atLoad

\* the drawer and then a dialog opened over a body styled 'auto', and closed
\* drawer first: the style is back
C30_Witness ==
  /\ overlays.calls = <<CallBy("lockBodyScroll", "SessionsDrawer"),
                        CallBy("lockBodyScroll", "AddSessionDialog"),
                        CallBy("unlockBodyScroll", "SessionsDrawer"),
                        CallBy("unlockBodyScroll", "AddSessionDialog")>>
  /\ overlays.atLoad = "auto"
  /\ overlay.lockCount = 0
  /\ overlay.bodyOverflow = "auto"
====
